---- MODULE Spec2Model ----
(***************************************************************************)
(* A model of the anchored-text pipeline of the Godel repository:          *)
(*   - TokenEstimator (token_estimator.py): estimate_tokens and the        *)
(*     batchers split_text_by_anchors / split_text_by_paragraphs;          *)
(*   - the anchored codec (xml_to_anchored_txt.py, anchored_txt_to_xml.py);*)
(*   - LegalCitationChecker (legal_citation_checker.py): the response      *)
(*     parser, context-window batching and the reconciler.                 *)
(* Text is a sequence of one-character strings; "n" stands for a line      *)
(* feed.  Every subsystem has its own specification (SpecSplit, ...).      *)
(***************************************************************************)
EXTENDS Integers, Sequences, FiniteSets, TLC

VARIABLES
    \* ---- TokenEstimator.split_text_by_anchors / split_text_by_paragraphs
    text,               \* the argument text
    max_tokens,         \* the argument max_tokens
    anchors,            \* list(re.finditer(anchor_pattern, text)): start offsets
    paragraphs,         \* text.split('\n\n') of the fallback
    idx,                \* the loop index (enumerate), 1-based
    batches,            \* the list being returned
    current_batch,      \* the batch text being accumulated
    current_anchors,    \* the anchors of the batch being accumulated
    batch_start_anchor, \* None or the first anchor of the batch
    spc,                \* position: "idle", "anchors", "paras", "done"
    \* ---- xml_to_anchored_txt / anchored_txt_to_xml
    doc,                \* root.findall('.//w:p'): the paragraphs, each its runs
    paragraph_counter,  \* the encoder's counter
    anchored_text,      \* the encoder's list of anchored paragraphs
    final_text,         \* the file the encoder writes and the decoder reads
    dec_paragraphs,     \* the decoder's list of stripped, non-empty texts
    cidx,               \* the decoder's loop index, 1-based
    new_body,           \* the decoder's paragraphs, each its new runs
    cpc,                \* "idle", "encode", "encoded", "decode", "decoded",
                        \* "split" (the file was handed to the batcher)
    \* ---- LegalCitationChecker._validate_citations
    citations,          \* the argument: the merged list, in arrival order
    citation_groups,    \* the dict, as its items in insertion order
    vidx,               \* the index of the loop that is running, 1-based
    validated_citations,\* the list being returned
    resolver_calls,     \* the calls of _resolve_citation_inconsistency made:
                        \* the anchor and what happened to the call
    origin,             \* for each record returned, how it was chosen
    vpc,                \* "idle", "call", "group", "resolve", "done"
    \* ---- LegalCitationChecker._check_citations_single
    caller,             \* which method makes the call
    output_file,        \* the argument output_file (None or a path)
    content,            \* the content of the model's response
    side_file,          \* the .raw.txt side file: <<>> (no file) or <<its text>>
    llm_calls,          \* the chat_completion calls made for this text
    single_result,      \* what the call returns
    ppc,                \* "idle", "call", or where the call returned: "parsed"
                        \* (lines 216-254), "no_client", "raised", "no_choices"
    \* ---- LegalCitationChecker.check_citations_batched_with_context
    batch_size,         \* the argument batch_size
    context_overlap,    \* the argument context_overlap
    num_paragraphs,     \* len(paragraphs)
    loop_i,             \* the loop variable i of line 415, 0-based
    batch_citations,    \* what _check_citations_single returned last
    target_citations,   \* what the filter returned last
    all_citations,      \* the merged list
    contributed_by,     \* for each record of all_citations, the i of the
                        \* batch that contributed it
    batch_starts,       \* the values i has taken
    batch_results,      \* the batch summaries
    context_result,     \* what the call returns
    xpc,                \* "idle", "range", "loop", "merge", "validate", "done"
    \* ---- LegalCitationChecker._check_citations_batched
    num_batches,        \* len(batches)
    batch_idx,          \* the loop index i, 0-based
    batch_outcomes,     \* for each batch run, what its call returned
    all_results,        \* the results of the batches that returned one
    combined_citations, \* the merged citations
    total_citations,    \* the sum of total_citations_found
    citations_with_errors, \* the sum of citations_with_errors
    citations_correct,  \* the sum of citations_correct
    batched_result,     \* what the call returns
    bpc,                \* "idle", "loop", "combine", "done"
    \* ---- LLMClient._make_request and chat_completion
    max_retries,        \* the argument max_retries
    attempt,            \* the loop variable attempt, 0-based
    in_flight,          \* the requests posted and not yet answered
    attempts,           \* what each attempt made came back with
    sleeps,             \* the arguments of the time.sleep calls made
    request_result,     \* what _make_request returns
    chat_outcome,       \* chat_completion: "pending", "returned", "raised"
    rpc,                \* "idle", "attempt", "posted", "done", "chat", "failed"
    \* ---- TokenEstimator.estimate_tokens applied to a text and to the text with more appended
    est_text,           \* the text whose tokens are estimated
    est_suffix,         \* the text appended to it
    est_tokens,         \* estimate_tokens(est_text), or None before the call
    est_appended,       \* estimate_tokens(est_text + est_suffix), or None before the call
    epc,                \* "idle", "estimated", "appended"
    \* ---- LegalCitationChecker.check_citations_in_text and TokenEstimator.analyze_text_size
    has_client,         \* whether self.client is set
    model_max_tokens,   \* self.max_tokens of the estimator, the limit of the model
    text_tokens,        \* estimate_tokens(text)
    prompt_tokens,      \* estimate_tokens(self.default_prompt)
    analysis,           \* the dictionary analyze_text_size returns
    route,              \* "idle", "none", "single", "batched": the path taken
    \* ---- DocxExtractor._convert_to_tagged_text and DocxReconstructor, on one span
    span_text,          \* the literal text of the span
    span_bold,          \* whether the span is bold
    extractor,          \* "core" or "legacy": which docx_extractor.py encodes
    tagged_text,        \* the tagged text the extractor returns
    parsed_texts,       \* the ParsedText records of the paragraph
    runs,               \* the runs written, each with the content of its w:t
    dpc,                \* "idle", "span", "tagged", "parsed", "run"
    \* ---- DocxReconstructor._parse_paragraph and _create_paragraph_xml, on one paragraph in a justify wrapper
    just_wrapper,       \* the X of the <justify_X> wrapper
    just_items,         \* what the wrapper holds, in order: plain text, bold spans, tabbed content, footnotes
    just_parsed,        \* parsed_texts: the ParsedText records in the order they are appended
    just_jc,            \* the w:val of the w:jc written, or None
    jpc,                \* "idle", "tagged", "parsed", "xml"
    \* ---- DocxExtractor.extract_text_with_formatting: the footnote labels of one extractor object
    fn_table,           \* self.footnotes, the ids collected from footnotes.xml
    fn_package,         \* the ids of the footnotes of the package that have text
    fn_runs,            \* the runs of the document, in order
    fn_i,               \* the index of the run the loop is at
    footnote_counter,   \* self.footnote_counter
    fn_labels,          \* the labels given in the current call, in encounter order
    fn_calls,           \* the number of calls made on the object
    fpc,                \* "idle", "new", "runs", "returned"
    \* ---- LLMDocumentProcessor.process_document
    proc_client,        \* self.client is set
    docx_exists,        \* the input DOCX exists
    metadata,           \* the metadata dict of the running call
    metadata_dir,       \* the metadata files saved so far
    steps_run,          \* the step functions called by the running call, with what they did
    returned,            \* what the calls returned
    lpc,                \* where process_document stands
    \* ---- LegalCitationChecker._split_into_paragraphs
    par_contents,       \* the text of each paragraph of the document
    par_text,           \* the anchored text handed to the method
    par_parts,          \* the list re.split returns
    par_i,              \* the loop index, 0-based as in the code
    par_result,         \* the list the loop builds, then the list returned
    qpc,                \* "idle", "call", "loop", "returned"
    \* ---- ReasoningCitationValidator
    reason_client,      \* self.client is set
    reason_entry,       \* the method called: "validate" or "batch"
    reason_citations,   \* the citations handed to the method
    reason_batch_size,  \* batch_size of batch_validate_with_reasoning
    reason_i,           \* the start of the running batch, 0-based as in the code
    reason_batch,       \* the list validate_citations_with_reasoning works on
    reason_k,           \* its loop index, 1-based
    batch_validated,    \* the list validate_citations_with_reasoning builds
    reason_output,      \* the list the method called returns
    wpc                 \* "idle", "call", "batch", "loop", "done"

splitVars == <<text, max_tokens, anchors, paragraphs, idx, batches,
               current_batch, current_anchors, batch_start_anchor, spc>>

codecVars == <<doc, paragraph_counter, anchored_text, final_text,
               dec_paragraphs, cidx, new_body, cpc>>

validateVars == <<citations, citation_groups, vidx, validated_citations,
                  resolver_calls, origin, vpc>>

singleVars == <<caller, output_file, content, side_file, llm_calls,
                single_result, ppc>>

contextVars == <<batch_size, context_overlap, num_paragraphs, loop_i,
                 batch_citations, target_citations, all_citations,
                 contributed_by, batch_starts, batch_results, context_result,
                 xpc>>

batchedVars == <<num_batches, batch_idx, batch_outcomes, all_results,
                 combined_citations, total_citations, citations_with_errors,
                 citations_correct, batched_result, bpc>>

requestVars == <<max_retries, attempt, in_flight, attempts, sleeps,
                 request_result, chat_outcome, rpc>>

estimateVars == <<est_text, est_suffix, est_tokens, est_appended, epc>>

routeVars == <<has_client, model_max_tokens, text_tokens, prompt_tokens,
               analysis, route>>

docxVars == <<span_text, span_bold, extractor, tagged_text, parsed_texts,
              runs, dpc>>

justifyVars == <<just_wrapper, just_items, just_parsed, just_jc, jpc>>

footnoteVars == <<fn_table, fn_package, fn_runs, fn_i, footnote_counter,
                  fn_labels, fn_calls, fpc>>

pipelineVars == <<proc_client, docx_exists, metadata, metadata_dir, steps_run,
                  returned, lpc>>

paragraphsVars == <<par_contents, par_text, par_parts, par_i, par_result,
                    qpc>>

reasoningVars == <<reason_client, reason_entry, reason_citations,
                   reason_batch_size, reason_i, reason_batch, reason_k,
                   batch_validated, reason_output, wpc>>

vars == <<splitVars, codecVars, validateVars, singleVars, contextVars,
          batchedVars, requestVars, estimateVars, routeVars, docxVars,
          justifyVars, footnoteVars, pipelineVars, paragraphsVars,
          reasoningVars>>

\* what the actions of one subsystem leave alone
notSplitVars == <<codecVars, validateVars, singleVars, contextVars,
                  batchedVars, requestVars, estimateVars, routeVars, docxVars,
                  justifyVars, footnoteVars, pipelineVars, paragraphsVars,
                  reasoningVars>>
notCodecVars == <<splitVars, validateVars, singleVars, contextVars,
                  batchedVars, requestVars, estimateVars, routeVars, docxVars,
                  justifyVars, footnoteVars, pipelineVars, paragraphsVars,
                  reasoningVars>>
notValidateVars == <<splitVars, codecVars, singleVars, contextVars,
                     batchedVars, requestVars, estimateVars, routeVars,
                     docxVars, justifyVars, footnoteVars, pipelineVars,
                     paragraphsVars, reasoningVars>>
notSingleVars == <<splitVars, codecVars, validateVars, contextVars,
                   batchedVars, requestVars, estimateVars, routeVars,
                   docxVars, justifyVars, footnoteVars, pipelineVars,
                   paragraphsVars, reasoningVars>>
notContextVars == <<splitVars, codecVars, singleVars, batchedVars,
                    requestVars, estimateVars, routeVars, docxVars,
                    justifyVars, footnoteVars, pipelineVars, paragraphsVars,
                    reasoningVars>>
notBatchedVars == <<splitVars, codecVars, validateVars, singleVars,
                    contextVars, requestVars, estimateVars, routeVars,
                    docxVars, justifyVars, footnoteVars, pipelineVars,
                    paragraphsVars, reasoningVars>>
notRequestVars == <<splitVars, codecVars, validateVars, singleVars,
                    contextVars, batchedVars, estimateVars, routeVars,
                    docxVars, justifyVars, footnoteVars, pipelineVars,
                    paragraphsVars, reasoningVars>>
notEstimateVars == <<splitVars, codecVars, validateVars, singleVars,
                     contextVars, batchedVars, requestVars, routeVars,
                     docxVars, justifyVars, footnoteVars, pipelineVars,
                     paragraphsVars, reasoningVars>>
notRouteVars == <<splitVars, codecVars, validateVars, singleVars, contextVars,
                  batchedVars, requestVars, estimateVars, docxVars,
                  justifyVars, footnoteVars, pipelineVars, paragraphsVars,
                  reasoningVars>>
notDocxVars == <<splitVars, codecVars, validateVars, singleVars, contextVars,
                 batchedVars, requestVars, estimateVars, routeVars,
                 justifyVars, footnoteVars, pipelineVars, paragraphsVars,
                 reasoningVars>>
notJustifyVars == <<splitVars, codecVars, validateVars, singleVars,
                    contextVars, batchedVars, requestVars, estimateVars,
                    routeVars, docxVars, footnoteVars, pipelineVars,
                    paragraphsVars, reasoningVars>>
notFootnoteVars == <<splitVars, codecVars, validateVars, singleVars,
                     contextVars, batchedVars, requestVars, estimateVars,
                     routeVars, docxVars, justifyVars, pipelineVars,
                     paragraphsVars, reasoningVars>>
notPipelineVars == <<splitVars, codecVars, validateVars, singleVars,
                     contextVars, batchedVars, requestVars, estimateVars,
                     routeVars, docxVars, justifyVars, footnoteVars,
                     paragraphsVars, reasoningVars>>
notParagraphsVars == <<splitVars, codecVars, validateVars, singleVars,
                       contextVars, batchedVars, requestVars, estimateVars,
                       routeVars, docxVars, justifyVars, footnoteVars,
                       pipelineVars, reasoningVars>>
notReasoningVars == <<splitVars, codecVars, validateVars, singleVars,
                      contextVars, batchedVars, requestVars, estimateVars,
                      routeVars, docxVars, justifyVars, footnoteVars,
                      pipelineVars, paragraphsVars>>

None == "None"

(***************************************************************************)
(* Helpers on sequences.                                                   *)
(***************************************************************************)
Slice(s, a, b) == IF b < a THEN <<>> ELSE SubSeq(s, a, b)

RECURSIVE Flatten(_)
Flatten(ss) == IF ss = <<>> THEN <<>> ELSE Head(ss) \o Flatten(Tail(ss))

RECURSIVE SeqsUpTo(_, _)
SeqsUpTo(S, n) ==
    IF n = 0 THEN {<<>>}
    ELSE LET R == SeqsUpTo(S, n - 1)
         IN  R \cup {Append(r, x) : r \in {q \in R : Len(q) = n - 1}, x \in S}

RECURSIVE SumSeq(_)
SumSeq(s) == IF s = <<>> THEN 0 ELSE Head(s) + SumSeq(Tail(s))

(***************************************************************************)
(* Regular expressions of token_estimator.py, on character sequences.      *)
(***************************************************************************)
Digits == {"0", "1", "2", "3", "4", "5", "6", "7", "8", "9"}

\* r'<A\d{3}>' matches at offset i (1-based)
AnchorAt(t, i) ==
    /\ i + 5 <= Len(t)
    /\ t[i] = "<" /\ t[i + 1] = "A"
    /\ t[i + 2] \in Digits /\ t[i + 3] \in Digits /\ t[i + 4] \in Digits
    /\ t[i + 5] = ">"

AnchorLen == 6

\* re.finditer(r'<A\d{3}>', t): start offsets of the non-overlapping matches
RECURSIVE FindAnchorsFrom(_, _)
FindAnchorsFrom(t, i) ==
    IF i > Len(t) THEN <<>>
    ELSE IF AnchorAt(t, i) THEN <<i>> \o FindAnchorsFrom(t, i + AnchorLen)
    ELSE FindAnchorsFrom(t, i + 1)

FindAnchors(t) == FindAnchorsFrom(t, 1)

\* the first offset >= i holding character c, or 0
RECURSIVE IndexFrom(_, _, _)
IndexFrom(t, c, i) ==
    IF i > Len(t) THEN 0
    ELSE IF t[i] = c THEN i
    ELSE IndexFrom(t, c, i + 1)

\* len(re.findall(r'<[^>]+>', t)) counted from offset i
RECURSIVE CountTagsFrom(_, _)
CountTagsFrom(t, i) ==
    IF i + 2 > Len(t) THEN 0
    ELSE IF t[i] = "<" /\ t[i + 1] # ">"
         THEN LET j == IndexFrom(t, ">", i + 2)
              IN  IF j = 0 THEN CountTagsFrom(t, i + 1)
                  ELSE 1 + CountTagsFrom(t, j + 1)
         ELSE CountTagsFrom(t, i + 1)

CountTags(t) == CountTagsFrom(t, 1)

TagSurcharge == 2
AnchorSurcharge == 3
CharsPerToken == 4

\* an estimate from the length alone
estimate_tokensNoSurcharge(t) == Len(t) \div CharsPerToken

\* TokenEstimator.estimate_tokens: int(len/4 + tags*2 + anchors*3)
estimate_tokens(t) ==
    IF t = <<>> THEN 0
    ELSE (Len(t) \div CharsPerToken)
         + CountTags(t) * TagSurcharge
         + Len(FindAnchors(t)) * AnchorSurcharge

AnchorToken(t, i) == SubSeq(t, i, i + AnchorLen - 1)

(***************************************************************************)
(* str.split('\n\n') and str.strip() of split_text_by_paragraphs.          *)
(***************************************************************************)
Whitespace == {"n", " "}

SepAt(t, i) == i + 1 <= Len(t) /\ t[i] = "n" /\ t[i + 1] = "n"

\* t.split('\n\n'): the pieces between the non-overlapping separators
RECURSIVE SplitFrom(_, _, _)
SplitFrom(t, start, i) ==
    IF i > Len(t) THEN <<Slice(t, start, Len(t))>>
    ELSE IF SepAt(t, i)
         THEN <<Slice(t, start, i - 1)>> \o SplitFrom(t, i + 2, i + 2)
         ELSE SplitFrom(t, start, i + 1)

SplitParagraphs(t) == SplitFrom(t, 1, 1)

RECURSIVE LStrip(_)
LStrip(t) == IF t # <<>> /\ Head(t) \in Whitespace THEN LStrip(Tail(t)) ELSE t

RECURSIVE RStrip(_)
RStrip(t) ==
    IF t # <<>> /\ t[Len(t)] \in Whitespace
    THEN RStrip(SubSeq(t, 1, Len(t) - 1)) ELSE t

Strip(t) == RStrip(LStrip(t))

ParagraphSep == <<"n", "n">>

(***************************************************************************)
(* The inputs of the batcher: texts made of a few pieces, and budgets.     *)
(***************************************************************************)
MaxPieces == 4
MaxBudgetMul == 3
BudgetStep == 7

Pieces ==
    { <<"<", "A", "0", "0", "1", ">">>,
      <<"<", "A", "0", "0", "2", ">">>,
      <<"x">>,
      <<"x", "x", "x", "x", "x", "x", "x", "x">>,
      <<"<", "b", ">">>,
      ParagraphSep }

Texts == {Flatten(ps) : ps \in SeqsUpTo(Pieces, MaxPieces)}

Budgets == {k * BudgetStep : k \in 0..MaxBudgetMul}

(***************************************************************************)
(* TokenEstimator.split_text_by_anchors, one action per loop iteration.    *)
(***************************************************************************)
\* the segment of iteration i: text[:start] + token for the first anchor,
\* text[prev_end:start] + token for the others
SegmentText(t, as, i) ==
    IF i = 1
    THEN Slice(t, 1, as[i] - 1) \o AnchorToken(t, as[i])
    ELSE Slice(t, as[i - 1] + AnchorLen, as[i] - 1) \o AnchorToken(t, as[i])

\* a test that closes the batch before every segment
BatchIsFullAlways(test_batch, cur, budget) == cur # <<>>

\* lines 90 and 141: estimated_tokens > max_tokens and current_batch
BatchIsFullOnCurrent(test_batch, cur, budget) ==
    estimate_tokens(cur) > budget /\ cur # <<>>

BatchIsFull(test_batch, cur, budget) ==
    estimate_tokens(test_batch) > budget /\ cur # <<>>

\* batch_info and text of the batch that is closed
AnchorBatchEndFirst(btext, start, as) ==
    [text |-> btext,
     start_anchor |-> start,
     end_anchor |-> IF as # <<>> THEN as[1] ELSE None,
     anchor_count |-> Len(as),
     estimated_tokens |-> estimate_tokens(btext)]

AnchorBatch(btext, start, as) ==
    [text |-> btext,
     start_anchor |-> start,
     end_anchor |-> IF as # <<>> THEN as[Len(as)] ELSE None,
     anchor_count |-> Len(as),
     estimated_tokens |-> estimate_tokens(btext)]

ParagraphBatch(btext) ==
    [text |-> Strip(btext),
     start_anchor |-> None,
     end_anchor |-> None,
     anchor_count |-> 0,
     estimated_tokens |-> estimate_tokens(btext)]

\* the codec at rest, in the specifications of the other subsystems
CodecIdle ==
    /\ doc = <<>>
    /\ paragraph_counter = 0
    /\ anchored_text = <<>>
    /\ final_text = <<>>
    /\ dec_paragraphs = <<>>
    /\ cidx = 1
    /\ new_body = <<>>
    /\ cpc = "idle"

\* _check_citations_single at rest
SingleIdle ==
    /\ caller = None
    /\ output_file = None
    /\ content = <<>>
    /\ side_file = <<>>
    /\ llm_calls = 0
    /\ single_result = [kind |-> "none"]
    /\ ppc = "idle"

\* check_citations_batched_with_context at rest
ContextIdle ==
    /\ batch_size = 0
    /\ context_overlap = 0
    /\ num_paragraphs = 0
    /\ loop_i = 0
    /\ batch_citations = [kind |-> "none"]
    /\ target_citations = <<>>
    /\ all_citations = <<>>
    /\ contributed_by = <<>>
    /\ batch_starts = <<>>
    /\ batch_results = <<>>
    /\ context_result = [kind |-> "none"]
    /\ xpc = "idle"

\* LegalCitationChecker._check_citations_batched at rest
BatchedIdle ==
    /\ num_batches = 0
    /\ batch_idx = 0
    /\ batch_outcomes = <<>>
    /\ all_results = <<>>
    /\ combined_citations = <<>>
    /\ total_citations = 0
    /\ citations_with_errors = 0
    /\ citations_correct = 0
    /\ batched_result = [kind |-> "none"]
    /\ bpc = "idle"

\* LLMClient._make_request and chat_completion at rest
RequestIdle ==
    /\ max_retries = 0
    /\ attempt = 0
    /\ in_flight = 0
    /\ attempts = <<>>
    /\ sleeps = <<>>
    /\ request_result = [kind |-> "none"]
    /\ chat_outcome = "pending"
    /\ rpc = "idle"

\* TokenEstimator.estimate_tokens applied to a text and to the text with more appended at rest
EstimateIdle ==
    /\ est_text = <<>>
    /\ est_suffix = <<>>
    /\ est_tokens = None
    /\ est_appended = None
    /\ epc = "idle"

\* LegalCitationChecker.check_citations_in_text and TokenEstimator.analyze_text_size at rest
RouteIdle ==
    /\ has_client = FALSE
    /\ model_max_tokens = 0
    /\ text_tokens = 0
    /\ prompt_tokens = 0
    /\ analysis = [kind |-> "none"]
    /\ route = "idle"

\* DocxExtractor._convert_to_tagged_text and DocxReconstructor, on one span at rest
DocxIdle ==
    /\ span_text = <<>>
    /\ span_bold = FALSE
    /\ extractor = "core"
    /\ tagged_text = <<>>
    /\ parsed_texts = <<>>
    /\ runs = <<>>
    /\ dpc = "idle"

\* DocxReconstructor._parse_paragraph and _create_paragraph_xml, on one paragraph in a justify wrapper at rest
JustifyIdle ==
    /\ just_wrapper = "left"
    /\ just_items = <<>>
    /\ just_parsed = <<>>
    /\ just_jc = None
    /\ jpc = "idle"

\* DocxExtractor.extract_text_with_formatting: the footnote labels of one extractor object at rest
FootnoteIdle ==
    /\ fn_table = {}
    /\ fn_package = {}
    /\ fn_runs = <<>>
    /\ fn_i = 1
    /\ footnote_counter = 1
    /\ fn_labels = <<>>
    /\ fn_calls = 0
    /\ fpc = "idle"

\* LLMDocumentProcessor.process_document at rest
PipelineIdle ==
    /\ proc_client = FALSE
    /\ docx_exists = FALSE
    /\ metadata = <<>>
    /\ metadata_dir = <<>>
    /\ steps_run = <<>>
    /\ returned = <<>>
    /\ lpc = "idle"

\* LegalCitationChecker._split_into_paragraphs at rest
ParagraphsIdle ==
    /\ par_contents = <<>>
    /\ par_text = <<>>
    /\ par_parts = <<>>
    /\ par_i = 0
    /\ par_result = <<>>
    /\ qpc = "idle"

\* ReasoningCitationValidator at rest
ReasoningIdle ==
    /\ reason_client = FALSE
    /\ reason_entry = "validate"
    /\ reason_citations = <<>>
    /\ reason_batch_size = 1
    /\ reason_i = 0
    /\ reason_batch = <<>>
    /\ reason_k = 1
    /\ batch_validated = <<>>
    /\ reason_output = <<>>
    /\ wpc = "idle"

\* the reconciler at rest
ValidateIdle ==
    /\ citations = <<>>
    /\ citation_groups = <<>>
    /\ vidx = 1
    /\ validated_citations = <<>>
    /\ resolver_calls = <<>>
    /\ origin = <<>>
    /\ vpc = "idle"

InitSplit ==
    /\ text \in Texts
    /\ max_tokens \in Budgets
    /\ anchors = <<>>
    /\ paragraphs = <<>>
    /\ idx = 1
    /\ batches = <<>>
    /\ current_batch = <<>>
    /\ current_anchors = <<>>
    /\ batch_start_anchor = None
    /\ spc = "idle"
    /\ CodecIdle
    /\ ValidateIdle
    /\ SingleIdle
    /\ ContextIdle
    /\ BatchedIdle
    /\ RequestIdle
    /\ EstimateIdle
    /\ RouteIdle
    /\ DocxIdle
    /\ JustifyIdle
    /\ FootnoteIdle
    /\ PipelineIdle
    /\ ParagraphsIdle
    /\ ReasoningIdle

\* lines 57-71: the early return, the fallback, or the start of the loop
SplitCall ==
    /\ spc = "idle"
    /\ anchors' = FindAnchors(text)
    /\ paragraphs' = IF text # <<>> /\ anchors' = <<>>
                     THEN SplitParagraphs(text) ELSE <<>>
    /\ spc' = IF text = <<>> THEN "done"
              ELSE IF anchors' = <<>> THEN "paras" ELSE "anchors"
    /\ UNCHANGED notSplitVars
    /\ UNCHANGED <<text, max_tokens, idx, batches, current_batch,
                   current_anchors, batch_start_anchor>>

\* lines 73-113: one iteration of the loop over the anchors
SplitStep ==
    /\ spc = "anchors"
    /\ idx <= Len(anchors)
    /\ LET anchor_token == AnchorToken(text, anchors[idx])
           segment_text == SegmentText(text, anchors, idx)
           test_batch == current_batch \o segment_text
       IN  IF BatchIsFull(test_batch, current_batch, max_tokens)
           THEN /\ batches' = Append(batches,
                        AnchorBatch(current_batch, batch_start_anchor,
                                    current_anchors))
                /\ current_batch' = segment_text
                /\ current_anchors' = <<anchor_token>>
                /\ batch_start_anchor' = anchor_token
           ELSE /\ batches' = batches
                /\ current_batch' = test_batch
                /\ current_anchors' = Append(current_anchors, anchor_token)
                /\ batch_start_anchor' =
                       IF batch_start_anchor = None THEN anchor_token
                       ELSE batch_start_anchor
    /\ idx' = idx + 1
    /\ UNCHANGED notSplitVars
    /\ UNCHANGED <<text, max_tokens, anchors, paragraphs, spc>>

\* lines 115-129: the final batch and the return
SplitFinish ==
    /\ spc = "anchors"
    /\ idx > Len(anchors)
    /\ batches' = IF current_batch # <<>>
                  THEN Append(batches,
                           AnchorBatch(current_batch, batch_start_anchor,
                                       current_anchors))
                  ELSE batches
    /\ spc' = "done"
    /\ UNCHANGED notSplitVars
    /\ UNCHANGED <<text, max_tokens, anchors, paragraphs, idx, current_batch,
                   current_anchors, batch_start_anchor>>

\* split_text_by_paragraphs, lines 137-153: one iteration
ParagraphStep ==
    /\ spc = "paras"
    /\ idx <= Len(paragraphs)
    /\ LET paragraph == paragraphs[idx]
           test_batch == current_batch \o paragraph \o ParagraphSep
       IN  IF BatchIsFull(test_batch, current_batch, max_tokens)
           THEN /\ batches' = Append(batches, ParagraphBatch(current_batch))
                /\ current_batch' = paragraph \o ParagraphSep
           ELSE /\ batches' = batches
                /\ current_batch' = test_batch
    /\ idx' = idx + 1
    /\ UNCHANGED notSplitVars
    /\ UNCHANGED <<text, max_tokens, anchors, paragraphs, current_anchors,
                   batch_start_anchor, spc>>

\* split_text_by_paragraphs, lines 155-166: the final batch and the return
ParagraphFinish ==
    /\ spc = "paras"
    /\ idx > Len(paragraphs)
    /\ batches' = IF current_batch # <<>>
                  THEN Append(batches, ParagraphBatch(current_batch))
                  ELSE batches
    /\ spc' = "done"
    /\ UNCHANGED notSplitVars
    /\ UNCHANGED <<text, max_tokens, anchors, paragraphs, idx, current_batch,
                   current_anchors, batch_start_anchor>>

NextSplit ==
    \/ SplitCall
    \/ SplitStep
    \/ SplitFinish
    \/ ParagraphStep
    \/ ParagraphFinish

SpecSplit == InitSplit /\ [][NextSplit]_vars

(***************************************************************************)
(* Claims about the batcher.                                               *)
(***************************************************************************)
BatchIndices == 1..Len(batches)

OverBudget(b) == estimate_tokens(b.text) > max_tokens

\* the anchor tokens recognised in a text, in order
AnchorsOf(t) == [k \in 1..Len(FindAnchors(t)) |-> AnchorToken(t, FindAnchors(t)[k])]

HasParagraphSep(t) == \E i \in 1..Len(t) : SepAt(t, i)

\* C1 as stated: every batch fits the budget unless it is exactly one
\* anchor segment (anchor_count = 1).
C1_BudgetUnlessOneAnchor ==
    \A i \in BatchIndices :
        OverBudget(batches[i]) => batches[i].anchor_count = 1

\* C1 amended: every batch fits the budget unless it is exactly one segment:
\* one anchor segment (anchor_count = 1), or, for a text with no recognised
\* anchor, one paragraph of the fallback (anchor_count = 0, no separator).
C1_BudgetUnlessOneSegment ==
    \A i \in BatchIndices :
        OverBudget(batches[i]) =>
            \/ batches[i].anchor_count = 1
            \/ /\ batches[i].anchor_count = 0
               /\ FindAnchors(text) = <<>>
               /\ ~HasParagraphSep(batches[i].text)

\* C1 witness: a finished split with an oversized one-anchor batch next to a
\* batch that fits a positive budget.
C1_Witness ==
    /\ spc = "done"
    /\ max_tokens > 0
    /\ \E i, j \in BatchIndices :
        /\ batches[i].anchor_count = 1 /\ OverBudget(batches[i])
        /\ batches[j].anchor_count >= 1 /\ ~OverBudget(batches[j])

\* C2: when the split returns, the anchors of the batches, concatenated in
\* batch order, are the anchors of the text in order; the anchor_count
\* values sum to their number; each batch's start_anchor and end_anchor are
\* the first and last anchor it contains.
C2_AnchorsPartitioned ==
    spc = "done" =>
        /\ Flatten([i \in BatchIndices |-> AnchorsOf(batches[i].text)])
               = AnchorsOf(text)
        /\ SumSeq([i \in BatchIndices |-> batches[i].anchor_count])
               = Len(FindAnchors(text))
        /\ \A i \in BatchIndices :
            LET as == AnchorsOf(batches[i].text)
            IN  /\ batches[i].anchor_count = Len(as)
                /\ batches[i].start_anchor = IF as = <<>> THEN None ELSE as[1]
                /\ batches[i].end_anchor =
                       IF as = <<>> THEN None ELSE as[Len(as)]

\* C2 witness: a finished split of a text with three anchors into two or
\* more batches, one of them holding two anchors.
C2_Witness ==
    /\ spc = "done"
    /\ Len(FindAnchors(text)) >= 3
    /\ Len(batches) >= 2
    /\ \E i \in BatchIndices : batches[i].anchor_count = 2

(***************************************************************************)
(* The anchored codec.  A run is [text, rPr, vertAlign]: the text of its   *)
(* w:t elements, the names of the elements of its w:rPr, and the attribute *)
(* dictionary of its w:vertAlign element as ElementTree holds it.  An      *)
(* anchored text is a sequence of tokens: the characters of literal text,  *)
(* the formatting tags, and the characters of an anchor, "[[" and "]]"     *)
(* standing for its brackets.                                              *)
(***************************************************************************)
FormatNames == {"bold", "italic", "underline", "smallcaps", "superscript"}

OpenTag(f) ==
    CASE f = "bold" -> "<bold>"
      [] f = "italic" -> "<italic>"
      [] f = "underline" -> "<underline>"
      [] f = "smallcaps" -> "<smallcaps>"
      [] f = "superscript" -> "<superscript>"

\* f"</{tag[1:]}"
CloseTag(f) ==
    CASE f = "bold" -> "</bold>"
      [] f = "italic" -> "</italic>"
      [] f = "underline" -> "</underline>"
      [] f = "smallcaps" -> "</smallcaps>"
      [] f = "superscript" -> "</superscript>"

\* the key under which ElementTree stores the attribute w:val of a parsed
\* element, and the key extract_paragraph_text asks for
QualifiedVal == "{w-namespace}val"
PrefixedVal == "w:val"

NoAttrib == [k \in {} |-> None]
SuperscriptAttrib == [k \in {QualifiedVal} |-> "superscript"]

\* Element.get(key)
AttribGet(attrib, key) == IF key \in DOMAIN attrib THEN attrib[key] ELSE None

DigitSeq == <<"0", "1", "2", "3", "4", "5", "6", "7", "8", "9">>

RECURSIVE DecimalOf(_)
DecimalOf(k) ==
    IF k < 10 THEN <<DigitSeq[k + 1]>>
    ELSE Append(DecimalOf(k \div 10), DigitSeq[(k % 10) + 1])

RECURSIVE ZeroPad(_, _)
ZeroPad(ds, width) == IF Len(ds) >= width THEN ds ELSE ZeroPad(<<"0">> \o ds, width)

AnchorDigits == 5

\* a counter that starts the numbering at 0
AnchorTokenFromZero(counter) ==
    <<"[[", "P", "-">> \o ZeroPad(DecimalOf(counter - 1), AnchorDigits) \o <<"]]">>

\* f"[[P-{paragraph_counter:05d}]]"
AnchorTokenOf(counter) ==
    <<"[[", "P", "-">> \o ZeroPad(DecimalOf(counter), AnchorDigits) \o <<"]]">>

\* lines 60-76: the formatting tags of a run, in the order they are appended
FormattingTags(run) ==
    (IF "b" \in run.rPr THEN <<"bold">> ELSE <<>>)
    \o (IF "i" \in run.rPr THEN <<"italic">> ELSE <<>>)
    \o (IF "u" \in run.rPr THEN <<"underline">> ELSE <<>>)
    \o (IF "smallCaps" \in run.rPr THEN <<"smallcaps">> ELSE <<>>)
    \o (IF "vertAlign" \in run.rPr
           /\ AttribGet(run.vertAlign, PrefixedVal) = "superscript"
        THEN <<"superscript">> ELSE <<>>)

\* lines 97-99: each tag in turn wraps what the earlier ones produced
RECURSIVE WrapTags(_, _)
WrapTags(run_text, tags) ==
    IF tags = <<>> THEN run_text
    ELSE WrapTags(<<OpenTag(Head(tags))>> \o run_text \o <<CloseTag(Head(tags))>>,
                  Tail(tags))

\* lines 55-102: the text of one run
RunText(run) == WrapTags(run.text, FormattingTags(run))

\* extract_paragraph_text: ''.join of the non-empty run texts
RECURSIVE extract_paragraph_text(_)
extract_paragraph_text(paragraph) ==
    IF paragraph = <<>> THEN <<>>
    ELSE RunText(Head(paragraph)) \o extract_paragraph_text(Tail(paragraph))

\* '\n\n'.join(parts)
RECURSIVE JoinParagraphs(_)
JoinParagraphs(parts) ==
    IF parts = <<>> THEN <<>>
    ELSE IF Len(parts) = 1 THEN parts[1]
    ELSE parts[1] \o ParagraphSep \o JoinParagraphs(Tail(parts))

\* r'[[P-\d{5}]]' of anchored_txt_to_xml matches at offset i
CodecAnchorAt(t, i) ==
    /\ i + AnchorDigits + 3 <= Len(t)
    /\ t[i] = "[[" /\ t[i + 1] = "P" /\ t[i + 2] = "-"
    /\ \A d \in 1..AnchorDigits : t[i + 2 + d] \in Digits
    /\ t[i + AnchorDigits + 3] = "]]"

CodecAnchorLen == AnchorDigits + 4

\* re.split(r'[[P-\d{5}]]', t)
RECURSIVE SplitOnAnchors(_, _, _)
SplitOnAnchors(t, start, i) ==
    IF i > Len(t) THEN <<Slice(t, start, Len(t))>>
    ELSE IF CodecAnchorAt(t, i)
         THEN <<Slice(t, start, i - 1)>>
              \o SplitOnAnchors(t, i + CodecAnchorLen, i + CodecAnchorLen)
         ELSE SplitOnAnchors(t, start, i + 1)

\* [p.strip() for p in paragraphs if p.strip()]
RECURSIVE StripNonEmpty(_)
StripNonEmpty(ps) ==
    IF ps = <<>> THEN <<>>
    ELSE IF Strip(Head(ps)) = <<>> THEN StripNonEmpty(Tail(ps))
    ELSE <<Strip(Head(ps))>> \o StripNonEmpty(Tail(ps))

FormatOfOpenTag(tok) ==
    IF \E f \in FormatNames : OpenTag(f) = tok
    THEN CHOOSE f \in FormatNames : OpenTag(f) = tok
    ELSE None

\* '(.*?)</\1>' after an opening tag at p: the offset of the nearest closing
\* tag of format f with no line feed before it, or 0
RECURSIVE ClosingFrom(_, _, _)
ClosingFrom(t, f, q) ==
    IF q > Len(t) THEN 0
    ELSE IF t[q] = CloseTag(f) THEN q
    ELSE IF t[q] = "n" THEN 0
    ELSE ClosingFrom(t, f, q + 1)

\* re.split(r'<(bold|italic|underline|smallcaps|superscript)>(.*?)</\1>', t):
\* [before, <<format>>, content, between, <<format>>, content, ..., after]
RECURSIVE SplitOnFormats(_, _, _)
SplitOnFormats(t, start, p) ==
    IF p > Len(t) THEN <<Slice(t, start, Len(t))>>
    ELSE LET f == FormatOfOpenTag(t[p])
             q == IF f = None THEN 0 ELSE ClosingFrom(t, f, p + 1)
         IN  IF q = 0 THEN SplitOnFormats(t, start, p + 1)
             ELSE <<Slice(t, start, p - 1), <<f>>, Slice(t, p + 1, q - 1)>>
                  \o SplitOnFormats(t, q + 1, q + 1)

\* lines 98-130: for i in range(0, len(parts), 3), i being 1-based here
RECURSIVE RunsFromParts(_, _)
RunsFromParts(parts, i) ==
    IF i > Len(parts) THEN <<>>
    ELSE LET formatted == i + 2 <= Len(parts)
             format_type == IF formatted THEN parts[i + 1][1] ELSE None
             text_content == IF formatted THEN parts[i + 2] ELSE parts[i]
         IN  (IF Strip(text_content) = <<>> THEN <<>>
              ELSE <<[text |-> text_content,
                      flags |-> IF format_type = None THEN {}
                                ELSE {format_type}]>>)
             \o RunsFromParts(parts, i + 3)

\* reconstruct_runs_from_text: the runs added to the new paragraph
reconstruct_runs_from_text(t) == RunsFromParts(SplitOnFormats(t, 1, 1), 1)

(***************************************************************************)
(* Documents: up to MaxParas paragraphs holding up to MaxDocRuns runs in   *)
(* all, each run of one of the kinds of RunKinds.                          *)
(***************************************************************************)
MaxParas == 3
MaxDocRuns == 2

Run(t, props) ==
    [text |-> t, rPr |-> props,
     vertAlign |-> IF "vertAlign" \in props THEN SuperscriptAttrib ELSE NoAttrib]

RunKinds ==
    { Run(<<"a">>, {}),
      Run(<<" ">>, {}),
      Run(<<"b">>, {"b"}),
      Run(<<"c">>, {"b", "i"}),
      Run(<<"s">>, {"vertAlign"}) }

RECURSIVE SeqsOfLen(_, _)
SeqsOfLen(S, n) ==
    IF n = 0 THEN {<<>>}
    ELSE {<<x>> \o r : x \in S, r \in SeqsOfLen(S, n - 1)}

\* the documents of exactly m paragraphs with at most r runs in all
RECURSIVE DocsOf(_, _)
DocsOf(m, r) ==
    IF m = 0 THEN {<<>>}
    ELSE UNION { {<<para>> \o rest : para \in SeqsOfLen(RunKinds, k),
                                     rest \in DocsOf(m - 1, r - k)}
                 : k \in 0..r }

Docs == UNION {DocsOf(m, MaxDocRuns) : m \in 0..MaxParas}

\* the formatting a run of the document has
FlagsOfRun(run) ==
    (IF "b" \in run.rPr THEN {"bold"} ELSE {})
    \cup (IF "i" \in run.rPr THEN {"italic"} ELSE {})
    \cup (IF "u" \in run.rPr THEN {"underline"} ELSE {})
    \cup (IF "smallCaps" \in run.rPr THEN {"smallcaps"} ELSE {})
    \cup (IF "vertAlign" \in run.rPr
             /\ AttribGet(run.vertAlign, QualifiedVal) = "superscript"
          THEN {"superscript"} ELSE {})

RunsOfParagraph(paragraph) ==
    [k \in 1..Len(paragraph) |->
        [text |-> paragraph[k].text, flags |-> FlagsOfRun(paragraph[k])]]

SplitIdle ==
    /\ text = <<>>
    /\ max_tokens = 0
    /\ anchors = <<>>
    /\ paragraphs = <<>>
    /\ idx = 1
    /\ batches = <<>>
    /\ current_batch = <<>>
    /\ current_anchors = <<>>
    /\ batch_start_anchor = None
    /\ spc = "idle"

InitCodec ==
    /\ doc \in Docs
    /\ paragraph_counter = 0
    /\ anchored_text = <<>>
    /\ final_text = <<>>
    /\ dec_paragraphs = <<>>
    /\ cidx = 1
    /\ new_body = <<>>
    /\ cpc = "encode"
    /\ SplitIdle
    /\ ValidateIdle
    /\ SingleIdle
    /\ ContextIdle
    /\ BatchedIdle
    /\ RequestIdle
    /\ EstimateIdle
    /\ RouteIdle
    /\ DocxIdle
    /\ JustifyIdle
    /\ FootnoteIdle
    /\ PipelineIdle
    /\ ParagraphsIdle
    /\ ReasoningIdle

\* xml_to_anchored_txt lines 30-38: one paragraph of the loop
EncodeParagraph ==
    /\ cpc = "encode"
    /\ paragraph_counter < Len(doc)
    /\ paragraph_counter' = paragraph_counter + 1
    /\ anchored_text' = Append(anchored_text,
           AnchorTokenOf(paragraph_counter')
           \o extract_paragraph_text(doc[paragraph_counter']))
    /\ UNCHANGED <<doc, final_text, dec_paragraphs, cidx, new_body, cpc>>
    /\ UNCHANGED notCodecVars

\* xml_to_anchored_txt lines 40-45: join and write the file
EncodeJoin ==
    /\ cpc = "encode"
    /\ paragraph_counter = Len(doc)
    /\ final_text' = JoinParagraphs(anchored_text)
    /\ cpc' = "encoded"
    /\ UNCHANGED <<doc, paragraph_counter, anchored_text, dec_paragraphs,
                   cidx, new_body>>
    /\ UNCHANGED notCodecVars

\* anchored_txt_to_xml lines 25-40: read the file, split it on the anchors
DecodeSplit ==
    /\ cpc = "encoded"
    /\ dec_paragraphs' = StripNonEmpty(SplitOnAnchors(final_text, 1, 1))
    /\ cidx' = 1
    /\ cpc' = "decode"
    /\ UNCHANGED <<doc, paragraph_counter, anchored_text, final_text, new_body>>
    /\ UNCHANGED notCodecVars

\* reconstruct_xml_with_anchored_text lines 72-84: one pair of the zip
DecodeParagraph ==
    /\ cpc = "decode"
    /\ cidx <= Len(doc) /\ cidx <= Len(dec_paragraphs)
    /\ new_body' = Append(new_body,
                          reconstruct_runs_from_text(dec_paragraphs[cidx]))
    /\ cidx' = cidx + 1
    /\ UNCHANGED <<doc, paragraph_counter, anchored_text, final_text,
                   dec_paragraphs, cpc>>
    /\ UNCHANGED notCodecVars

\* reconstruct_xml_with_anchored_text lines 86-88: the zip is exhausted
DecodeFinish ==
    /\ cpc = "decode"
    /\ (cidx > Len(doc) \/ cidx > Len(dec_paragraphs))
    /\ cpc' = "decoded"
    /\ UNCHANGED <<doc, paragraph_counter, anchored_text, final_text,
                   dec_paragraphs, cidx, new_body>>
    /\ UNCHANGED notCodecVars

NextCodec ==
    \/ EncodeParagraph
    \/ EncodeJoin
    \/ DecodeSplit
    \/ DecodeParagraph
    \/ DecodeFinish

SpecCodec == InitCodec /\ [][NextCodec]_vars

(***************************************************************************)
(* Claims about the codec.                                                 *)
(***************************************************************************)
\* the runs decoded for the k-th paragraph (none when it was not rebuilt)
DecodedRuns(k) == IF k <= Len(new_body) THEN new_body[k] ELSE <<>>

\* C3 as stated: once the encoded document is decoded against its original,
\* every paragraph has the same ordered runs, each with the same text and
\* the same formatting flags.
C3_RoundTrip ==
    cpc = "decoded" =>
        \A k \in 1..Len(doc) : DecodedRuns(k) = RunsOfParagraph(doc[k])

RECURSIVE ValueOfDigits(_)
ValueOfDigits(ds) ==
    IF ds = <<>> THEN 0
    ELSE 10 * ValueOfDigits(SubSeq(ds, 1, Len(ds) - 1))
         + (CHOOSE d \in 0..9 : DigitSeq[d + 1] = ds[Len(ds)])

\* the number an anchor token at the head of t carries, or -1
AnchorNumberAtHead(t) ==
    IF CodecAnchorAt(t, 1) THEN ValueOfDigits(SubSeq(t, 4, AnchorDigits + 3))
    ELSE -1

RECURSIVE CountCodecAnchorsFrom(_, _)
CountCodecAnchorsFrom(t, i) ==
    IF i > Len(t) THEN 0
    ELSE IF CodecAnchorAt(t, i)
         THEN 1 + CountCodecAnchorsFrom(t, i + CodecAnchorLen)
         ELSE CountCodecAnchorsFrom(t, i + 1)

\* C4: the encoder has emitted one anchor per paragraph visited, the k-th
\* being P- and k zero-padded to 5 digits, as the prefix of the k-th
\* paragraph, whether or not the paragraph has text; the text it writes
\* holds exactly N anchors, the k-th paragraph of it starting with anchor k.
C4_AnchorsDense ==
    /\ Len(anchored_text) = paragraph_counter
    /\ \A k \in 1..Len(anchored_text) :
           AnchorNumberAtHead(anchored_text[k]) = k
    /\ cpc \in {"encoded", "decode", "decoded"} =>
        /\ paragraph_counter = Len(doc)
        /\ CountCodecAnchorsFrom(final_text, 1) = Len(doc)
        /\ Len(doc) >= 1 =>
            /\ Len(SplitParagraphs(final_text)) = Len(doc)
            /\ \A k \in 1..Len(doc) :
                   AnchorNumberAtHead(SplitParagraphs(final_text)[k]) = k

\* C4 witness: an encoded document of three paragraphs, the second without
\* any run.
C4_Witness ==
    /\ cpc = "encoded"
    /\ Len(doc) = 3
    /\ doc[2] = <<>>
    /\ doc[1] # <<>>

(***************************************************************************)
(* LegalCitationChecker._validate_citations and                            *)
(* _resolve_citation_inconsistency.  A JSON value is a record with a kind: *)
(* an object (a citation record), an array, or the empty object.           *)
(***************************************************************************)
\* 'P-' and the number zero-padded to 5 digits, the anchor of a record
AnchorName(k) == <<"P", "-">> \o ZeroPad(DecimalOf(k), AnchorDigits)

\* the anchor as it stands in the text, brackets included
BracketedAnchorName(k) == <<"[[">> \o AnchorName(k) \o <<"]]">>

\* an anchor the model spells without the dash
DashlessAnchorName(k) == <<"P">> \o ZeroPad(DecimalOf(k), AnchorDigits)

\* citation.get('anchor', ''): '' when the key is missing
NoAnchor == <<>>

Citation(anchor, status, offset) ==
    [kind |-> "obj", anchor |-> anchor, status |-> status,
     start_offset |-> offset]

EmptyObject == [kind |-> "empty"]

\* bool(value) of a parsed JSON value
Truthy(v) ==
    CASE v.kind = "obj" -> TRUE
      [] v.kind = "report" -> TRUE
      [] v.kind = "arr" -> v.items # <<>>
      [] OTHER -> FALSE

\* what can happen to the resolver call
ResolverFailures == {"no_client", "raises", "no_choices", "bad_json"}

\* the index of the item of the dict with this key, or 0
GroupIndex(groups, anchor) ==
    IF \E g \in 1..Len(groups) : groups[g].anchor = anchor
    THEN CHOOSE g \in 1..Len(groups) : groups[g].anchor = anchor
    ELSE 0

\* a grouping that overwrites the list of an anchor already seen
AddToGroupsOverwrite(groups, citation) ==
    LET g == GroupIndex(groups, citation.anchor)
    IN  IF g = 0
        THEN Append(groups, [anchor |-> citation.anchor, group |-> <<citation>>])
        ELSE [groups EXCEPT ![g].group = <<citation>>]

\* lines 546-550: one citation enters the dict
AddToGroups(groups, citation) ==
    LET g == GroupIndex(groups, citation.anchor)
    IN  IF g = 0
        THEN Append(groups, [anchor |-> citation.anchor, group |-> <<citation>>])
        ELSE [groups EXCEPT ![g].group = Append(@, citation)]

\* a resolver that falls back to the last record
ResolveFallingBackToLast(group, outcome) ==
    IF outcome.kind \in ResolverFailures THEN group[Len(group)]
    ELSE outcome.value

\* _resolve_citation_inconsistency: citations[0] when the client cannot be
\* created, the call raises, the response has no choices or the content is
\* not JSON; the parsed value otherwise
ResolveCitationInconsistency(group, outcome) ==
    IF outcome.kind \in ResolverFailures THEN group[1]
    ELSE outcome.value

\* lines 564-569: the resolved record if it is truthy, else the first one
ResolvedOrFirst(group, outcome) ==
    LET resolved_citation == ResolveCitationInconsistency(group, outcome)
    IN  IF Truthy(resolved_citation) THEN resolved_citation ELSE group[1]

(***************************************************************************)
(* The inputs of the reconciler.                                           *)
(***************************************************************************)
MaxCitations == 4

ValidateRecords ==
    { Citation(AnchorName(1), "Error", 0),
      Citation(AnchorName(1), "Correct", 0),
      Citation(AnchorName(1), "Error", 7),
      Citation(AnchorName(3), "Error", 0),
      Citation(AnchorName(3), "Correct", 2),
      Citation(NoAnchor, "Error", 0) }

\* what the resolver's model may answer when its output parses
ResolverAnswers ==
    { Citation(AnchorName(1), "Uncertain", 0),
      Citation(AnchorName(9), "Correct", 0),
      EmptyObject }

ResolverOutcomes ==
    {[kind |-> f, value |-> EmptyObject] : f \in ResolverFailures}
    \cup {[kind |-> "parsed", value |-> v] : v \in ResolverAnswers}

InitValidate ==
    /\ citations \in SeqsUpTo(ValidateRecords, MaxCitations)
    /\ citation_groups = <<>>
    /\ vidx = 1
    /\ validated_citations = <<>>
    /\ resolver_calls = <<>>
    /\ origin = <<>>
    /\ vpc = "call"
    /\ SplitIdle
    /\ CodecIdle
    /\ SingleIdle
    /\ ContextIdle
    /\ BatchedIdle
    /\ RequestIdle
    /\ EstimateIdle
    /\ RouteIdle
    /\ DocxIdle
    /\ JustifyIdle
    /\ FootnoteIdle
    /\ PipelineIdle
    /\ ParagraphsIdle
    /\ ReasoningIdle

\* lines 538-545: the early return for an empty list, or the first loop
ValidateCall ==
    /\ vpc = "call"
    /\ vpc' = IF citations = <<>> THEN "done" ELSE "group"
    /\ vidx' = 1
    /\ UNCHANGED <<citations, citation_groups, validated_citations,
                   resolver_calls, origin>>
    /\ UNCHANGED notValidateVars

\* lines 546-550: one iteration of the grouping loop
GroupCitation ==
    /\ vpc = "group"
    /\ vidx <= Len(citations)
    /\ citation_groups' = AddToGroups(citation_groups, citations[vidx])
    /\ vidx' = vidx + 1
    /\ UNCHANGED <<citations, validated_citations, resolver_calls, origin, vpc>>
    /\ UNCHANGED notValidateVars

\* line 552: the grouping loop is over
GroupingDone ==
    /\ vpc = "group"
    /\ vidx > Len(citations)
    /\ vidx' = 1
    /\ vpc' = "resolve"
    /\ UNCHANGED <<citations, citation_groups, validated_citations,
                   resolver_calls, origin>>
    /\ UNCHANGED notValidateVars

\* lines 555-557: a group of one is accepted as it is
AcceptSingle ==
    /\ vpc = "resolve"
    /\ vidx <= Len(citation_groups)
    /\ Len(citation_groups[vidx].group) = 1
    /\ validated_citations' =
           Append(validated_citations, citation_groups[vidx].group[1])
    /\ origin' = Append(origin, "single")
    /\ vidx' = vidx + 1
    /\ UNCHANGED <<citations, citation_groups, resolver_calls, vpc>>
    /\ UNCHANGED notValidateVars

\* lines 558-569: a group of several is handed to the resolver
ResolveConflict ==
    /\ vpc = "resolve"
    /\ vidx <= Len(citation_groups)
    /\ Len(citation_groups[vidx].group) # 1
    /\ \E outcome \in ResolverOutcomes :
        /\ validated_citations' =
               Append(validated_citations,
                      ResolvedOrFirst(citation_groups[vidx].group, outcome))
        /\ resolver_calls' =
               Append(resolver_calls,
                      [anchor |-> citation_groups[vidx].anchor,
                       outcome |-> outcome.kind])
        /\ origin' = Append(origin, outcome.kind)
    /\ vidx' = vidx + 1
    /\ UNCHANGED <<citations, citation_groups, vpc>>
    /\ UNCHANGED notValidateVars

\* line 574: return validated_citations
ValidateReturn ==
    /\ vpc = "resolve"
    /\ vidx > Len(citation_groups)
    /\ vpc' = "done"
    /\ UNCHANGED <<citations, citation_groups, vidx, validated_citations,
                   resolver_calls, origin>>
    /\ UNCHANGED notValidateVars

ValidateStep ==
    \/ ValidateCall
    \/ GroupCitation
    \/ GroupingDone
    \/ AcceptSingle
    \/ ResolveConflict
    \/ ValidateReturn

NextValidate == ValidateStep

SpecValidate == InitValidate /\ [][NextValidate]_vars

(***************************************************************************)
(* Claims about the reconciler.                                            *)
(***************************************************************************)
\* the distinct anchors of a list, in the order of their first occurrence
RECURSIVE DistinctAnchors(_)
DistinctAnchors(cs) ==
    IF cs = <<>> THEN <<>>
    ELSE LET rest == DistinctAnchors(SubSeq(cs, 1, Len(cs) - 1))
             a == cs[Len(cs)].anchor
         IN  IF \E k \in 1..Len(rest) : rest[k] = a THEN rest
             ELSE Append(rest, a)

\* the records of a list that carry this anchor, in arrival order
RecordsOf(cs, a) == SelectSeq(cs, LAMBDA c : c.anchor = a)

\* C5: whenever the resolver call for a group of two or more records fails
\* (no client, the call raises, no choices, content not JSON), the record
\* put out for that anchor is the first record of the input with that
\* anchor; the output is thus a function of the input alone.
C5_FailingResolverKeepsFirst ==
    \A k \in 1..Len(validated_citations) :
        origin[k] \in ResolverFailures =>
            LET a == DistinctAnchors(citations)[k]
            IN  /\ Len(RecordsOf(citations, a)) >= 2
                /\ validated_citations[k] = RecordsOf(citations, a)[1]

\* C5 witness: the run is over, a resolver call failed for a group whose
\* first and last records differ.
C5_Witness ==
    /\ vpc = "done"
    /\ \E k \in 1..Len(validated_citations) :
        /\ origin[k] \in ResolverFailures
        /\ LET rs == RecordsOf(citations, DistinctAnchors(citations)[k])
           IN  rs[1] # rs[Len(rs)]

\* C6: the call returns one record per distinct anchor, in the order of
\* first occurrence; an anchor with one record yields that record without a
\* resolver call; the resolver is called exactly once for each anchor with
\* more than one record, and for no other.
C6_OneRecordPerAnchor ==
    vpc = "done" =>
        LET as == DistinctAnchors(citations)
            multi == SelectSeq(as, LAMBDA a : Len(RecordsOf(citations, a)) > 1)
        IN  /\ Len(validated_citations) = Len(as)
            /\ \A k \in 1..Len(as) :
                Len(RecordsOf(citations, as[k])) = 1 =>
                    /\ validated_citations[k] = RecordsOf(citations, as[k])[1]
                    /\ origin[k] = "single"
            /\ [k \in 1..Len(resolver_calls) |-> resolver_calls[k].anchor]
                   = multi

\* C6 witness: a finished run over a list with a single-record anchor and a
\* several-record anchor, the latter met first.
C6_Witness ==
    /\ vpc = "done"
    /\ Len(validated_citations) = 2
    /\ origin[1] # "single"
    /\ origin[2] = "single"
    /\ Len(citations) >= 3

(***************************************************************************)
(* LegalCitationChecker._check_citations_single.  A response is a sequence *)
(* of tokens: the code fence ("fence"), the word json, the brackets and the comma of  *)
(* JSON, white space ("nl"), prose, a flat citation object, and "{e:" and  *)
(* "}" around the value of an object's last key (its errors list).         *)
(***************************************************************************)
NoneValue == [kind |-> "none"]

ParseFail == [ok |-> FALSE, value |-> NoneValue, next |-> 0]

\* the citation object each object token spells
CitationOf(tok) ==
    CASE tok = "{c1}" -> Citation(AnchorName(1), "Error", 0)
      [] tok = "{c2}" -> Citation(AnchorName(2), "Correct", 0)
      [] tok = "{c3}" -> Citation(AnchorName(3), "Error", 0)
      [] tok = "{c3'}" -> Citation(AnchorName(3), "Correct", 4)
      [] tok = "{cB}" -> Citation(BracketedAnchorName(1), "Error", 0)
      [] tok = "{cN}" -> Citation(DashlessAnchorName(1), "Error", 0)
      [] tok = "{c0}" -> Citation(NoAnchor, "Error", 0)
      [] tok = "{cU}" -> Citation(AnchorName(2), "Uncertain", 0)

ObjectTokens ==
    {"{c1}", "{c2}", "{c3}", "{c3'}", "{cB}", "{cN}", "{c0}", "{cU}"}

\* the offset of the first token at or after i that is not white space
RECURSIVE SkipWs(_, _)
SkipWs(t, i) == IF i <= Len(t) /\ t[i] = "nl" THEN SkipWs(t, i + 1) ELSE i

TokenAt(t, i) == IF i >= 1 /\ i <= Len(t) THEN t[i] ELSE None

\* json.loads on tokens: a value at offset i
RECURSIVE ParseValue(_, _)
RECURSIVE ParseItems(_, _, _)
ParseValue(t, i) ==
    LET tok == TokenAt(t, i)
    IN  IF tok \in ObjectTokens
        THEN [ok |-> TRUE, value |-> CitationOf(tok), next |-> i + 1]
        ELSE IF tok = "{e:"
        THEN LET r == ParseValue(t, SkipWs(t, i + 1))
                 k == SkipWs(t, r.next)
             IN  IF r.ok /\ TokenAt(t, k) = "}"
                 THEN [ok |-> TRUE,
                       value |-> [kind |-> "obj", anchor |-> AnchorName(2),
                                  status |-> "Error", start_offset |-> 0,
                                  errors |-> r.value],
                       next |-> k + 1]
                 ELSE ParseFail
        ELSE IF tok = "["
        THEN LET j == SkipWs(t, i + 1)
             IN  IF TokenAt(t, j) = "]"
                 THEN [ok |-> TRUE, value |-> [kind |-> "arr", items |-> <<>>],
                       next |-> j + 1]
                 ELSE ParseItems(t, j, <<>>)
        ELSE ParseFail

ParseItems(t, i, acc) ==
    LET r == ParseValue(t, i)
        k == SkipWs(t, r.next)
    IN  IF ~r.ok THEN ParseFail
        ELSE IF TokenAt(t, k) = ","
        THEN ParseItems(t, SkipWs(t, k + 1), Append(acc, r.value))
        ELSE IF TokenAt(t, k) = "]"
        THEN [ok |-> TRUE,
              value |-> [kind |-> "arr", items |-> Append(acc, r.value)],
              next |-> k + 1]
        ELSE ParseFail

\* json.loads(t): one value, white space around it allowed
JsonLoads(t) ==
    LET r == ParseValue(t, SkipWs(t, 1))
    IN  IF r.ok /\ SkipWs(t, r.next) > Len(t)
        THEN [ok |-> TRUE, value |-> r.value]
        ELSE [ok |-> FALSE, value |-> NoneValue]

NoMatch == [found |-> FALSE, group |-> <<>>]

\* the offset of the first "]" at or after e that white space and a fence
\* follow, or 0: the lazy end of the group of line 218
RECURSIVE FenceCloseFrom(_, _)
FenceCloseFrom(t, e) ==
    IF e > Len(t) THEN 0
    ELSE IF t[e] = "]" /\ TokenAt(t, SkipWs(t, e + 1)) = "fence" THEN e
    ELSE FenceCloseFrom(t, e + 1)

\* re.search of the fenced-block pattern of line 218 (fence, optional json,
\* white space, a lazy bracketed group, white space, fence) from offset p
RECURSIVE FenceSearchFrom(_, _)
FenceSearchFrom(t, p) ==
    IF p > Len(t) THEN NoMatch
    ELSE LET q0 == IF TokenAt(t, p + 1) = "json" THEN p + 2 ELSE p + 1
             q == SkipWs(t, q0)
             e == IF t[p] = "fence" /\ TokenAt(t, q) = "["
                  THEN FenceCloseFrom(t, q + 1) ELSE 0
         IN  IF e = 0 THEN FenceSearchFrom(t, p + 1)
             ELSE [found |-> TRUE, group |-> SubSeq(t, q, e)]

\* re.search(r'(\[.*?\])', t, re.DOTALL): from the first "[" that a "]"
\* follows to the first "]" after it
BracketSearch(t) ==
    LET a == IndexFrom(t, "[", 1)
        e == IF a = 0 THEN 0 ELSE IndexFrom(t, "]", a + 1)
    IN  IF e = 0 THEN NoMatch
        ELSE [found |-> TRUE, group |-> SubSeq(t, a, e)]

\* _structure_citation_results; c.get raises on an item that is no dict
StructureCitationResults(v) ==
    IF \E k \in 1..Len(v.items) : v.items[k].kind # "obj" THEN NoneValue
    ELSE LET errs == Len(SelectSeq(v.items, LAMBDA c : c.status = "Error"))
         IN  [kind |-> "report",
              total_citations_found |-> Len(v.items),
              citations_with_errors |-> errs,
              citations_correct |-> Len(v.items) - errs,
              citations |-> v.items]

\* lines 219-224, 229-234, 237-242: json.loads of the group, then the report;
\* an exception of either ends the call with None
LoadAndStructure(group) ==
    LET r == JsonLoads(group)
    IN  IF r.ok THEN StructureCitationResults(r.value) ELSE NoneValue

\* lines 216-254: the extraction chain of _check_citations_single
ExtractCitations(c) ==
    LET code_block_match == FenceSearchFrom(c, 1)
        array_match == BracketSearch(c)
        whole == JsonLoads(c)
    IN  IF code_block_match.found
        THEN LoadAndStructure(code_block_match.group)
        ELSE IF TokenAt(c, SkipWs(c, 1)) = "[" /\ array_match.found
        THEN LoadAndStructure(array_match.group)
        ELSE IF array_match.found
        THEN LoadAndStructure(array_match.group)
        ELSE IF whole.ok THEN whole.value
        ELSE NoneValue

(***************************************************************************)
(* The inputs of _check_citations_single and its runs.                     *)
(***************************************************************************)
MaxRespLen == 4

ResponseAlphabet ==
    {"fence", "json", "[", "]", ",", "nl", "prose", "{c1}", "{e:", "}"}

\* responses longer than MaxRespLen: an array whose object holds a nested
\* list, a fenced array after prose, a fenced block that is not JSON after a
\* bare array, and an array of two objects inside prose
LongResponses ==
    { <<"[", "{e:", "[", "]", "}", "]">>,
      <<"prose", "nl", "fence", "json", "nl", "[", "{c1}", "]", "nl", "fence">>,
      <<"[", "]", "fence", "[", "prose", "]", "fence">>,
      <<"prose", "[", "{c1}", ",", "{c1}", "]", "prose">> }

Responses == SeqsUpTo(ResponseAlphabet, MaxRespLen) \cup LongResponses

\* the methods that call _check_citations_single (lines 154, 285, 429)
Callers ==
    {"check_citations_in_text", "_check_citations_batched",
     "check_citations_batched_with_context"}

\* the output_file each caller hands over: its own argument (None or a
\* path), but always None from check_citations_batched_with_context
OutputFilesOf(c) ==
    IF c = "check_citations_batched_with_context" THEN {None}
    ELSE {None, "out.json"}

\* lines 201-206: the side file after the response arrived
WriteRawOutput(file, out, c) == IF out # None THEN <<c>> ELSE file

InitSingle ==
    /\ caller \in Callers
    /\ output_file \in OutputFilesOf(caller)
    /\ content = <<>>
    /\ side_file = <<>>
    /\ llm_calls = 0
    /\ single_result = NoneValue
    /\ ppc = "call"
    /\ SplitIdle
    /\ CodecIdle
    /\ ValidateIdle
    /\ ContextIdle
    /\ BatchedIdle
    /\ RequestIdle
    /\ EstimateIdle
    /\ RouteIdle
    /\ DocxIdle
    /\ JustifyIdle
    /\ FootnoteIdle
    /\ PipelineIdle
    /\ ParagraphsIdle
    /\ ReasoningIdle

\* lines 177-179: no client, no call
SingleNoClient ==
    /\ ppc = "call"
    /\ single_result' = NoneValue
    /\ ppc' = "no_client"
    /\ UNCHANGED <<caller, output_file, content, side_file, llm_calls>>
    /\ UNCHANGED notSingleVars

\* lines 189-196, 259-261: chat_completion raises
SingleCallRaises ==
    /\ ppc = "call"
    /\ llm_calls' = llm_calls + 1
    /\ single_result' = NoneValue
    /\ ppc' = "raised"
    /\ UNCHANGED <<caller, output_file, content, side_file>>
    /\ UNCHANGED notSingleVars

\* lines 198, 255-257: the response has no choices
SingleNoChoices ==
    /\ ppc = "call"
    /\ llm_calls' = llm_calls + 1
    /\ single_result' = NoneValue
    /\ ppc' = "no_choices"
    /\ UNCHANGED <<caller, output_file, content, side_file>>
    /\ UNCHANGED notSingleVars

\* lines 189-254: the response arrives, the side file is written if
\* output_file is set, the extraction chain runs and the call returns
SingleParse ==
    /\ ppc = "call"
    /\ \E c \in Responses :
        /\ content' = c
        /\ side_file' = WriteRawOutput(side_file, output_file, c)
        /\ single_result' = ExtractCitations(c)
    /\ llm_calls' = llm_calls + 1
    /\ ppc' = "parsed"
    /\ UNCHANGED <<caller, output_file>>
    /\ UNCHANGED notSingleVars

NextSingle ==
    \/ SingleNoClient
    \/ SingleCallRaises
    \/ SingleNoChoices
    \/ SingleParse

SpecSingle == InitSingle /\ [][NextSingle]_vars

(***************************************************************************)
(* Claims about _check_citations_single.                                   *)
(***************************************************************************)
\* the candidates of the three strategies, in order: the group of the
\* fenced block, the bracketed span, the whole response
StrategyCandidates(c) ==
    LET code_block_match == FenceSearchFrom(c, 1)
        array_match == BracketSearch(c)
    IN  (IF code_block_match.found THEN <<code_block_match.group>> ELSE <<>>)
        \o (IF array_match.found THEN <<array_match.group>> ELSE <<>>)
        \o <<c>>

\* what the first candidate that parses as JSON yields: the report of a
\* group, the value itself for the whole response
FirstParsingStrategy(c) ==
    LET cands == StrategyCandidates(c)
        ok == {k \in 1..Len(cands) : JsonLoads(cands[k]).ok}
    IN  IF ok = {} THEN NoneValue
        ELSE LET k == CHOOSE k \in ok : \A j \in ok : k <= j
             IN  IF k = Len(cands) THEN JsonLoads(cands[k]).value
                 ELSE StructureCitationResults(JsonLoads(cands[k]).value)

NoStrategyParses(c) ==
    \A k \in 1..Len(StrategyCandidates(c)) :
        ~JsonLoads(StrategyCandidates(c)[k]).ok

\* C9: the parser returns the result of the first strategy (fenced block,
\* bracketed span, whole response) whose candidate parses as JSON; a
\* candidate that does not parse does not end the call, the later
\* strategies are still tried, and the call fails only when all fail.
C9_FirstParsingStrategyWins ==
    ppc = "parsed" => single_result = FirstParsingStrategy(content)

\* C10: whenever no strategy can parse the response, the raw response has
\* been written to the side file when the call returns None, on every
\* calling path, and one LLM call was made.
C10_RawResponseSaved ==
    (ppc = "parsed" /\ NoStrategyParses(content)) =>
        /\ single_result = NoneValue
        /\ side_file = <<content>>
        /\ llm_calls = 1

(***************************************************************************)
(* LegalCitationChecker.check_citations_batched_with_context and           *)
(* _filter_citations_to_target_paragraphs.                                 *)
(***************************************************************************)
\* anchor.split('-') from offset p: the parts between the dashes
RECURSIVE SplitDashFrom(_, _, _)
SplitDashFrom(a, start, p) ==
    IF p > Len(a) THEN <<Slice(a, start, Len(a))>>
    ELSE IF a[p] = "-"
         THEN <<Slice(a, start, p - 1)>> \o SplitDashFrom(a, p + 1, p + 1)
         ELSE SplitDashFrom(a, start, p + 1)

SplitDash(a) == SplitDashFrom(a, 1, 1)

\* int(s) does not raise ValueError (the anchors of the model hold no sign,
\* white space or underscore)
IsIntLiteral(s) == s # <<>> /\ \A k \in 1..Len(s) : s[k] \in Digits

\* int(s)
RECURSIVE IntOf(_)
IntOf(s) ==
    IF s = <<>> THEN 0
    ELSE 10 * IntOf(SubSeq(s, 1, Len(s) - 1))
         + (CHOOSE d \in 0..9 : DigitSeq[d + 1] = s[Len(s)])

\* a range test that forgets the lower end and so keeps the context
InTargetRangeNoLowerEnd(para_idx, target_start, target_size) ==
    para_idx < target_start + target_size

\* line 526: target_start <= para_idx < target_start + target_size
InTargetRange(para_idx, target_start, target_size) ==
    target_start <= para_idx /\ para_idx < target_start + target_size

\* citation.get('anchor', ''); a report has no such key
AnchorOf(citation) ==
    IF citation.kind = "obj" THEN citation.anchor ELSE NoAnchor

\* lines 514-530, one citation: TRUE when it is appended
KeepsCitation(citation, target_start, target_size) ==
    LET anchor == AnchorOf(citation)
        parts == SplitDash(anchor)
    IN  IF anchor = NoAnchor THEN FALSE
        ELSE IF Len(parts) < 2 THEN TRUE
        ELSE IF ~IsIntLiteral(parts[2]) THEN TRUE
        ELSE InTargetRange(IntOf(parts[2]) - 1, target_start, target_size)

\* _filter_citations_to_target_paragraphs: a dict becomes a list of one
FilterCitationsToTargetParagraphs(cs, target_start, target_size) ==
    LET list == IF cs.kind \in {"obj", "report"} THEN <<cs>>
                ELSE IF cs.kind = "arr" THEN cs.items
                ELSE <<>>
    IN  SelectSeq(list, LAMBDA c : KeepsCitation(c, target_start, target_size))

\* what the model may send back for one context window
ContextResponses ==
    { <<"{c1}">>, <<"{c2}">>, <<"{cB}">>, <<"{cN}">>, <<"{c0}">>,
      <<"[", "{c2}", "]">>, <<"prose">> }

ContextOutcomes ==
    {[kind |-> "raises", content |-> <<>>]}
    \cup {[kind |-> "content", content |-> c] : c \in ContextResponses}

\* what _check_citations_single returns for an outcome of the LLM call
SingleResult(outcome) ==
    IF outcome.kind = "content" THEN ExtractCitations(outcome.content)
    ELSE NoneValue

MaxBatchSize == 3
MaxContextParas == 3

Min(a, b) == IF a < b THEN a ELSE b

CountStatus(cs, st) == Len(SelectSeq(cs, LAMBDA c : c.status = st))

InitContext ==
    /\ batch_size \in 1..MaxBatchSize
    /\ context_overlap \in 0..MaxBatchSize
    /\ num_paragraphs \in 0..MaxContextParas
    /\ loop_i = 0
    /\ batch_citations = NoneValue
    /\ target_citations = <<>>
    /\ all_citations = <<>>
    /\ contributed_by = <<>>
    /\ batch_starts = <<>>
    /\ batch_results = <<>>
    /\ context_result = NoneValue
    /\ xpc = "range"
    /\ SplitIdle
    /\ CodecIdle
    /\ SingleIdle
    /\ ValidateIdle
    /\ BatchedIdle
    /\ RequestIdle
    /\ EstimateIdle
    /\ RouteIdle
    /\ DocxIdle
    /\ JustifyIdle
    /\ FootnoteIdle
    /\ PipelineIdle
    /\ ParagraphsIdle
    /\ ReasoningIdle

\* line 415: range(0, len(paragraphs), batch_size - context_overlap); a
\* step of 0 raises ValueError (lines 482-484), a negative step gives an
\* empty range
ContextRange ==
    /\ xpc = "range"
    /\ xpc' = IF batch_size - context_overlap = 0 THEN "done"
              ELSE IF batch_size - context_overlap < 0 \/ num_paragraphs = 0
                   THEN "merge"
              ELSE "loop"
    /\ UNCHANGED <<batch_size, context_overlap, num_paragraphs, loop_i,
                   batch_citations, target_citations, all_citations,
                   contributed_by, batch_starts, batch_results,
                   context_result>>
    /\ UNCHANGED validateVars
    /\ UNCHANGED notContextVars

\* lines 415-452: one iteration of the loop
ContextBatch ==
    /\ xpc = "loop"
    /\ \E outcome \in ContextOutcomes :
        LET result == SingleResult(outcome)
            target == IF Truthy(result)
                      THEN FilterCitationsToTargetParagraphs(
                               result, loop_i, batch_size)
                      ELSE <<>>
            step == batch_size - context_overlap
        IN  /\ batch_citations' = result
            /\ target_citations' = target
            /\ all_citations' = all_citations \o target
            /\ contributed_by' =
                   contributed_by \o [k \in 1..Len(target) |-> loop_i]
            /\ batch_results' =
                   IF target = <<>> THEN batch_results
                   ELSE Append(batch_results,
                               [batch_num |-> (loop_i \div step) + 1,
                                paragraphs |->
                                    <<loop_i + 1,
                                      Min(loop_i + batch_size, num_paragraphs)>>,
                                citations_found |-> Len(target)])
            /\ batch_starts' = Append(batch_starts, loop_i)
            /\ loop_i' = loop_i + step
            /\ xpc' = IF loop_i + step < num_paragraphs THEN "loop"
                      ELSE "merge"
    /\ UNCHANGED <<batch_size, context_overlap, num_paragraphs,
                   context_result>>
    /\ UNCHANGED validateVars
    /\ UNCHANGED notContextVars

\* lines 455, 479-481: nothing was merged
ContextNoCitations ==
    /\ xpc = "merge"
    /\ all_citations = <<>>
    /\ context_result' = NoneValue
    /\ xpc' = "done"
    /\ UNCHANGED <<batch_size, context_overlap, num_paragraphs, loop_i,
                   batch_citations, target_citations, all_citations,
                   contributed_by, batch_starts, batch_results>>
    /\ UNCHANGED validateVars
    /\ UNCHANGED notContextVars

\* lines 455-456: the merged list enters _validate_citations
ContextValidate ==
    /\ xpc = "merge"
    /\ all_citations # <<>>
    /\ citations' = all_citations
    /\ vpc' = "call"
    /\ xpc' = "validate"
    /\ UNCHANGED <<citation_groups, vidx, validated_citations,
                   resolver_calls, origin>>
    /\ UNCHANGED <<batch_size, context_overlap, num_paragraphs, loop_i,
                   batch_citations, target_citations, all_citations,
                   contributed_by, batch_starts, batch_results,
                   context_result>>
    /\ UNCHANGED notContextVars

\* lines 458-478: the results are built and returned
ContextReturn ==
    /\ xpc = "validate"
    /\ vpc = "done"
    /\ context_result' =
           [kind |-> "results",
            total_citations_found |-> Len(validated_citations),
            citations_with_errors |-> CountStatus(validated_citations, "Error"),
            citations_correct |-> CountStatus(validated_citations, "Correct"),
            batches_processed |-> Len(batch_results),
            total_batches |->
                (num_paragraphs + batch_size - context_overlap - 1)
                    \div (batch_size - context_overlap),
            citations |-> validated_citations,
            batch_summary |-> batch_results]
    /\ xpc' = "done"
    /\ UNCHANGED <<batch_size, context_overlap, num_paragraphs, loop_i,
                   batch_citations, target_citations, all_citations,
                   contributed_by, batch_starts, batch_results>>
    /\ UNCHANGED validateVars
    /\ UNCHANGED notContextVars

\* line 456: between ContextValidate and ContextReturn the steps of
\* _validate_citations run; they leave the locals of this method alone
NextContext ==
    \/ ContextRange
    \/ ContextBatch
    \/ ContextNoCitations
    \/ ContextValidate
    \/ ValidateStep
    \/ ContextReturn

SpecContext == InitContext /\ [][NextContext]_vars

(***************************************************************************)
(* Claims about check_citations_batched_with_context.                      *)
(***************************************************************************)
\* the paragraph index an anchor names: the number its digits spell, less 1
ParagraphIndexOf(a) == IntOf(SelectSeq(a, LAMBDA ch : ch \in Digits)) - 1

\* the filter can read a paragraph number off the anchor: there is a dash
\* and an integer follows it, up to the next dash
AnchorParses(a) ==
    Len(SplitDash(a)) >= 2 /\ IsIntLiteral(SplitDash(a)[2])

InSpanOf(b, p) == b <= p /\ p < b + batch_size

BatchesHolding(p) ==
    {k \in 1..Len(batch_starts) : InSpanOf(batch_starts[k], p)}

\* C8: with 0 <= context_overlap < batch_size, every paragraph index lies
\* in the authoritative span of exactly one batch, so no citation is
\* contributed to the merged list by two batches.
C8_SpansPartition ==
    (xpc \in {"merge", "validate", "done"}
     /\ 0 <= context_overlap /\ context_overlap < batch_size) =>
        /\ \A p \in 0..(num_paragraphs - 1) :
               Cardinality(BatchesHolding(p)) = 1
        /\ \A j, k \in 1..Len(all_citations) :
               (AnchorParses(all_citations[j].anchor)
                /\ all_citations[j] = all_citations[k]) =>
                   contributed_by[j] = contributed_by[k]

(***************************************************************************)
(* LegalCitationChecker._check_citations_batched.  The batches come from   *)
(* split_text_by_anchors; what matters here is how many there are and what *)
(* the call for each of them returns.                                      *)
(***************************************************************************)
MaxBatches == 3

\* what the model may send back for one batch: an array of one citation, of
\* two, of none, of an uncertain and a correct one, a bare object, text that
\* is not JSON
BatchedResponses ==
    { <<"[", "{c1}", "]">>, <<"[", "{c2}", ",", "{c3}", "]">>, <<"[", "]">>,
      <<"[", "{cU}", ",", "{c2}", "]">>, <<"{c1}">>, <<"prose">> }

BatchedOutcomes ==
    {[kind |-> "raises", content |-> <<>>]}
    \cup {[kind |-> "content", content |-> c] : c \in BatchedResponses}

\* 'citations' in batch_results, 'analysis_summary' in batch_results: the
\* keys of a report; a bare object parsed from the response has neither
HasReportKeys(result) == result.kind = "report"

\* line 308: "batches_processed": len(batches)
BatchesProcessed(batch_count, results) == batch_count

InitBatched ==
    /\ num_batches \in 0..MaxBatches
    /\ batch_idx = 0
    /\ batch_outcomes = <<>>
    /\ all_results = <<>>
    /\ combined_citations = <<>>
    /\ total_citations = 0
    /\ citations_with_errors = 0
    /\ citations_correct = 0
    /\ batched_result = NoneValue
    /\ bpc = "loop"
    /\ SplitIdle
    /\ CodecIdle
    /\ ValidateIdle
    /\ SingleIdle
    /\ ContextIdle
    /\ RequestIdle
    /\ EstimateIdle
    /\ RouteIdle
    /\ DocxIdle
    /\ JustifyIdle
    /\ FootnoteIdle
    /\ PipelineIdle
    /\ ParagraphsIdle
    /\ ReasoningIdle

\* lines 279-298: one iteration of the loop
BatchedStep ==
    /\ bpc = "loop"
    /\ batch_idx < num_batches
    /\ \E outcome \in BatchedOutcomes :
        LET result == SingleResult(outcome)
            counted == Truthy(result) /\ HasReportKeys(result)
        IN  /\ batch_outcomes' = Append(batch_outcomes, result)
            /\ all_results' = IF Truthy(result) THEN Append(all_results, result)
                              ELSE all_results
            /\ combined_citations' =
                   IF counted THEN combined_citations \o result.citations
                   ELSE combined_citations
            /\ total_citations' =
                   IF counted THEN total_citations + result.total_citations_found
                   ELSE total_citations
            /\ citations_with_errors' =
                   IF counted
                   THEN citations_with_errors + result.citations_with_errors
                   ELSE citations_with_errors
            /\ citations_correct' =
                   IF counted THEN citations_correct + result.citations_correct
                   ELSE citations_correct
    /\ batch_idx' = batch_idx + 1
    /\ UNCHANGED <<num_batches, batched_result, bpc>>
    /\ UNCHANGED notBatchedVars

\* lines 300-318: the combined report, or None when no batch gave a result
BatchedReturn ==
    /\ bpc = "loop"
    /\ batch_idx = num_batches
    /\ batched_result' =
           IF all_results # <<>>
           THEN [kind |-> "combined",
                 total_citations_found |-> total_citations,
                 citations_with_errors |-> citations_with_errors,
                 citations_correct |-> citations_correct,
                 batches_processed |-> BatchesProcessed(num_batches, all_results),
                 citations |-> combined_citations,
                 recommendations |-> <<>>]
           ELSE NoneValue
    /\ bpc' = "done"
    /\ UNCHANGED <<num_batches, batch_idx, batch_outcomes, all_results,
                   combined_citations, total_citations, citations_with_errors,
                   citations_correct>>
    /\ UNCHANGED notBatchedVars

NextBatched ==
    \/ BatchedStep
    \/ BatchedReturn

SpecBatched == InitBatched /\ [][NextBatched]_vars

(***************************************************************************)
(* Claims about _check_citations_batched.                                  *)
(***************************************************************************)
\* the batches whose call returned a result
SucceededBatches == SelectSeq(batch_outcomes, LAMBDA r : r.kind # "none")

\* the citations of a list of results, in order
RECURSIVE CitationsOfResults(_)
CitationsOfResults(rs) ==
    IF rs = <<>> THEN <<>>
    ELSE (IF Head(rs).kind = "report" THEN Head(rs).citations ELSE <<>>)
         \o CitationsOfResults(Tail(rs))

\* C11: a failed batch does not stop the later ones; whenever at least one
\* batch succeeds a report is returned whose citations are those of the
\* successful batches in batch order, and whose batches_processed is the
\* number of batches that succeeded, not the number attempted.
C11_PartialReportCountsSucceeded ==
    bpc = "done" =>
        /\ Len(batch_outcomes) = num_batches
        /\ SucceededBatches # <<>> =>
               /\ batched_result.kind = "combined"
               /\ batched_result.citations = CitationsOfResults(SucceededBatches)
               /\ batched_result.batches_processed = Len(SucceededBatches)

(***************************************************************************)
(* LLMClient._make_request and chat_completion (llm_client.py).            *)
(***************************************************************************)
DefaultMaxRetries == 3
MaxRetries == 3

\* what an attempt can come back with: status 200 and a body that is JSON,
\* status 200 and a body response.json() raises on, another status, a
\* requests.exceptions.Timeout, another exception
AttemptOutcomes ==
    { [status |-> 200, json |-> TRUE, body |-> "r1", exc |-> None],
      [status |-> 200, json |-> TRUE, body |-> "r2", exc |-> None],
      [status |-> 200, json |-> FALSE, body |-> "garbage", exc |-> None],
      [status |-> 500, json |-> FALSE, body |-> "error", exc |-> None],
      [status |-> 0, json |-> FALSE, body |-> None, exc |-> "Timeout"],
      [status |-> 0, json |-> FALSE, body |-> None, exc |-> "Exception"] }

\* lines 60-61: the attempt ends the call with the parsed body
AttemptSucceeds(o) == o.exc = None /\ o.status = 200 /\ o.json

\* a back-off that grows by two seconds an attempt
BackoffWaitLinear(k) == 2 * k

\* lines 64, 73, 82: wait_time = 2 ** attempt
BackoffWait(k) == 2 ^ k

InitRequest ==
    /\ max_retries \in 0..MaxRetries
    /\ attempt = 0
    /\ in_flight = 0
    /\ attempts = <<>>
    /\ sleeps = <<>>
    /\ request_result = NoneValue
    /\ chat_outcome = "pending"
    /\ rpc = "attempt"
    /\ SplitIdle
    /\ CodecIdle
    /\ ValidateIdle
    /\ SingleIdle
    /\ ContextIdle
    /\ BatchedIdle
    /\ EstimateIdle
    /\ RouteIdle
    /\ DocxIdle
    /\ JustifyIdle
    /\ FootnoteIdle
    /\ PipelineIdle
    /\ ParagraphsIdle
    /\ ReasoningIdle

\* lines 54-57: the next attempt posts its request
RequestPost ==
    /\ rpc = "attempt"
    /\ attempt < max_retries
    /\ in_flight' = in_flight + 1
    /\ rpc' = "posted"
    /\ UNCHANGED <<max_retries, attempt, attempts, sleeps, request_result,
                   chat_outcome>>
    /\ UNCHANGED notRequestVars

\* lines 57-86: the attempt comes back; the call returns the body, or
\* sleeps and goes on, or returns None after the last attempt
RequestAnswer ==
    /\ rpc = "posted"
    /\ \E o \in AttemptOutcomes :
        /\ attempts' = Append(attempts, o)
        /\ IF AttemptSucceeds(o)
           THEN /\ request_result' = [kind |-> "body", body |-> o.body]
                /\ rpc' = "done"
                /\ UNCHANGED <<sleeps, attempt>>
           ELSE IF attempt < max_retries - 1
           THEN /\ sleeps' = Append(sleeps, BackoffWait(attempt))
                /\ attempt' = attempt + 1
                /\ rpc' = "attempt"
                /\ UNCHANGED request_result
           ELSE /\ request_result' = NoneValue
                /\ rpc' = "done"
                /\ UNCHANGED <<sleeps, attempt>>
    /\ in_flight' = in_flight - 1
    /\ UNCHANGED <<max_retries, chat_outcome>>
    /\ UNCHANGED notRequestVars

\* lines 54, 88: the range is empty, return None
RequestNoAttempt ==
    /\ rpc = "attempt"
    /\ attempt >= max_retries
    /\ request_result' = NoneValue
    /\ rpc' = "done"
    /\ UNCHANGED <<max_retries, attempt, in_flight, attempts, sleeps,
                   chat_outcome>>
    /\ UNCHANGED notRequestVars

\* lines 114-117: chat_completion calls _make_request with the default
\* max_retries and raises when it returned None
ChatCompletionReturn ==
    /\ rpc = "done"
    /\ max_retries = DefaultMaxRetries
    /\ chat_outcome' = IF request_result = NoneValue THEN "raised"
                       ELSE "returned"
    /\ rpc' = "chat"
    /\ UNCHANGED <<max_retries, attempt, in_flight, attempts, sleeps,
                   request_result>>
    /\ UNCHANGED notRequestVars

\* legal_citation_checker.py lines 259-261: the exception of
\* chat_completion ends _check_citations_single with None
PipelineFailsBatch ==
    /\ rpc = "chat"
    /\ chat_outcome = "raised"
    /\ llm_calls' = llm_calls + 1
    /\ single_result' = NoneValue
    /\ ppc' = "raised"
    /\ rpc' = "failed"
    /\ UNCHANGED <<caller, output_file, content, side_file>>
    /\ UNCHANGED <<max_retries, attempt, in_flight, attempts, sleeps,
                   request_result, chat_outcome>>
    /\ UNCHANGED <<splitVars, codecVars, validateVars, contextVars,
                   batchedVars, estimateVars, routeVars, docxVars,
                   justifyVars,
                   footnoteVars,
                   pipelineVars,
                   paragraphsVars,
                   reasoningVars>>

NextRequest ==
    \/ RequestPost
    \/ RequestAnswer
    \/ RequestNoAttempt
    \/ ChatCompletionReturn
    \/ PipelineFailsBatch

SpecRequest == InitRequest /\ [][NextRequest]_vars

(***************************************************************************)
(* Claims about _make_request.                                             *)
(***************************************************************************)
RequestOver == rpc \in {"done", "chat", "failed"}

\* the sleeps made so far are 2^0, 2^1, ... one after each attempt but the
\* last possible one
BackoffSchedule ==
    /\ Len(sleeps) <= Len(attempts)
    /\ \A k \in 1..Len(sleeps) : sleeps[k] = 2 ^ (k - 1) /\ k < max_retries
    /\ RequestOver => Len(sleeps) = IF attempts = <<>> THEN 0
                                    ELSE Len(attempts) - 1

IsInfix(u, t) ==
    \E p \in 1..(Len(t) - Len(u) + 1) : SubSeq(t, p, p + Len(u) - 1) = u

\* the text that follows the k-th anchor, up to the next anchor or the end
FollowingText(k) ==
    Slice(text, anchors[k] + AnchorLen,
          IF k < Len(anchors) THEN anchors[k + 1] - 1 ELSE Len(text))

\* C13: an anchor and its paragraph text are an atomic unit: each anchor
\* token and the text that follows it up to the next anchor stand together
\* in one batch.
C13_AnchorWithItsText ==
    (spc = "done" /\ anchors # <<>>) =>
        \A k \in 1..Len(anchors) :
            \E b \in 1..Len(batches) :
                IsInfix(AnchorToken(text, anchors[k]) \o FollowingText(k),
                        batches[b].text)

(***************************************************************************)
(* The encoder's file handed to the batcher (legal_citation_checker.py     *)
(* lines 99-112 and 269): xml_to_anchored_txt writes the anchored text,    *)
(* split_text_by_anchors receives it.  The tokens of the codec are spelled *)
(* out in characters, as they stand in the file.                           *)
(***************************************************************************)
TagNameChars(f) ==
    CASE f = "bold" -> <<"b", "o", "l", "d">>
      [] f = "italic" -> <<"i", "t", "a", "l", "i", "c">>
      [] f = "underline" -> <<"u", "n", "d", "e", "r", "l", "i", "n", "e">>
      [] f = "smallcaps" -> <<"s", "m", "a", "l", "l", "c", "a", "p", "s">>
      [] f = "superscript" ->
             <<"s", "u", "p", "e", "r", "s", "c", "r", "i", "p", "t">>

\* the characters of one token of the anchored text; "[[" and "]]" are the
\* single characters that open and close an anchor
CharsOfToken(tok) ==
    IF \E f \in FormatNames : tok = OpenTag(f)
    THEN LET f == CHOOSE f \in FormatNames : tok = OpenTag(f)
         IN  <<"<">> \o TagNameChars(f) \o <<">">>
    ELSE IF \E f \in FormatNames : tok = CloseTag(f)
    THEN LET f == CHOOSE f \in FormatNames : tok = CloseTag(f)
         IN  <<"<", "/">> \o TagNameChars(f) \o <<">">>
    ELSE <<tok>>

FileText(t) == Flatten([k \in 1..Len(t) |-> CharsOfToken(t[k])])

\* the anchored file is read and split_text_by_anchors is entered with it
\* (token_estimator.py lines 57-71)
SplitEncodedText ==
    /\ cpc = "encoded"
    /\ spc = "idle"
    /\ \E budget \in Budgets :
        /\ text' = FileText(final_text)
        /\ max_tokens' = budget
    /\ anchors' = FindAnchors(text')
    /\ paragraphs' = IF text' # <<>> /\ anchors' = <<>>
                     THEN SplitParagraphs(text') ELSE <<>>
    /\ spc' = IF text' = <<>> THEN "done"
              ELSE IF anchors' = <<>> THEN "paras" ELSE "anchors"
    /\ cpc' = "split"
    /\ UNCHANGED <<idx, batches, current_batch, current_anchors,
                   batch_start_anchor>>
    /\ UNCHANGED <<doc, paragraph_counter, anchored_text, final_text,
                   dec_paragraphs, cidx, new_body>>
    /\ UNCHANGED <<validateVars, singleVars, contextVars, batchedVars,
                   requestVars, estimateVars, routeVars, docxVars,
                   justifyVars,
                   footnoteVars,
                   pipelineVars,
                   paragraphsVars,
                   reasoningVars>>

\* the loop over the anchors (SplitStep, SplitFinish) is left out: no file
\* of the encoder makes FindAnchors return an anchor, see C14
NextEncodeSplit ==
    \/ EncodeParagraph
    \/ EncodeJoin
    \/ SplitEncodedText
    \/ ParagraphStep
    \/ ParagraphFinish

SpecEncodeSplit == InitCodec /\ [][NextEncodeSplit]_vars

\* C14: for anchored text the encoder produced for N >= 1 paragraphs,
\* split_text_by_anchors recognises the encoder's anchors: it does not fall
\* back to paragraph-boundary splitting, the anchor_count values sum to N
\* and every batch's start_anchor and end_anchor are anchors, not null.
C14_EncoderAnchorsRecognised ==
    (cpc = "split" /\ Len(doc) >= 1) =>
        /\ spc # "paras"
        /\ Len(anchors) = Len(doc)
        /\ spc = "done" =>
               /\ SumSeq([b \in 1..Len(batches) |-> batches[b].anchor_count])
                      = Len(doc)
               /\ \A b \in 1..Len(batches) :
                      /\ batches[b].start_anchor # None
                      /\ batches[b].end_anchor # None

\* the segment of text that opens batch b of the anchor loop: the one of
\* the first anchor after those of the batches before it
FirstSegmentOf(b) ==
    SegmentText(text, anchors,
                1 + SumSeq([j \in 1..(b - 1) |-> batches[j].anchor_count]))

MaxUniformParas == 10
MinBodyLen == 6
MaxBodyLen == 7
MaxPerBatch == 5

DigitChars == <<"0", "1", "2", "3", "4", "5", "6", "7", "8", "9">>

\* the anchor of paragraph k, written with three digits
UniformAnchor(k) ==
    <<"<", "A", DigitChars[((k \div 100) % 10) + 1],
      DigitChars[((k \div 10) % 10) + 1], DigitChars[(k % 10) + 1], ">">>

UniformBody(len) == [j \in 1..len |-> "x"]

UniformParagraph(k, len) == UniformAnchor(k) \o UniformBody(len)

RECURSIVE UniformText(_, _)
UniformText(n, len) ==
    IF n = 0 THEN <<>>
    ELSE UniformText(n - 1, len) \o UniformParagraph(n, len)

\* the cost of one paragraph of the document
ParagraphCost(len) == estimate_tokens(UniformParagraph(1, len))

InitUniform ==
    /\ \E n \in 1..MaxUniformParas, len \in MinBodyLen..MaxBodyLen :
           /\ text = UniformText(n, len)
           /\ \E m \in 1..MaxPerBatch : max_tokens = m * ParagraphCost(len)
    /\ anchors = <<>>
    /\ paragraphs = <<>>
    /\ idx = 1
    /\ batches = <<>>
    /\ current_batch = <<>>
    /\ current_anchors = <<>>
    /\ batch_start_anchor = None
    /\ spc = "idle"
    /\ CodecIdle
    /\ ValidateIdle
    /\ SingleIdle
    /\ ContextIdle
    /\ BatchedIdle
    /\ RequestIdle
    /\ EstimateIdle
    /\ RouteIdle
    /\ DocxIdle
    /\ JustifyIdle
    /\ FootnoteIdle
    /\ PipelineIdle
    /\ ParagraphsIdle
    /\ ReasoningIdle

NextUniform ==
    \/ SplitCall
    \/ SplitStep
    \/ SplitFinish

SpecUniform == InitUniform /\ [][NextUniform]_vars

\* the body length of the uniform document under split
UniformLen == (Len(text) \div Len(anchors)) - AnchorLen

\* the scenario, scaled: the document has 5q paragraphs of one cost and the
\* budget is five paragraph costs (the example has q = 10)
Scenario ==
    /\ spc = "done"
    /\ anchors # <<>>
    /\ Len(anchors) % 5 = 0
    /\ max_tokens = 5 * ParagraphCost(UniformLen)

\* every paragraph (its anchor followed by its text) lies whole in a batch
ParagraphsWhole ==
    \A k \in 1..Len(anchors) :
        \E b \in 1..Len(batches) :
            IsInfix(UniformParagraph(k, UniformLen), batches[b].text)

\* C16: in the scenario the result is exactly q batches (10 for the 50
\* paragraphs of the example), each with anchor_count 5, and no paragraph is
\* divided between batches.
C16_BatchesOfFive ==
    Scenario =>
        /\ Len(batches) = Len(anchors) \div 5
        /\ \A b \in 1..Len(batches) : batches[b].anchor_count = 5
        /\ ParagraphsWhole

\* the counts alone
BatchesOfFiveAnchors ==
    Scenario =>
        /\ Len(batches) = Len(anchors) \div 5
        /\ \A b \in 1..Len(batches) : batches[b].anchor_count = 5

\* the counts for the shorter of the paragraph lengths
ShortParagraphsBatchesOfFive ==
    Scenario /\ UniformLen = MinBodyLen =>
        /\ Len(batches) = Len(anchors) \div 5
        /\ \A b \in 1..Len(batches) : batches[b].anchor_count = 5

\* the partition for the shorter of the paragraph lengths
ShortParagraphsWhole ==
    Scenario /\ UniformLen = MinBodyLen => ParagraphsWhole

(***************************************************************************)
(* TokenEstimator.estimate_tokens as a function: it is applied to a text   *)
(* and then to the same text with more appended.                           *)
(***************************************************************************)
MaxEstPieces == 3

\* the pieces of the batcher, and pieces that make a tag or an anchor only
\* together with what follows or precedes them
EstPieces ==
    Pieces \cup { <<"<">>, <<">">>, <<"<", "A", "0">>, <<"0", "1", ">">> }

EstTexts == {Flatten(ps) : ps \in SeqsUpTo(EstPieces, MaxEstPieces)}

InitEstimate ==
    /\ est_text \in EstTexts
    /\ est_suffix \in EstPieces
    /\ est_tokens = None
    /\ est_appended = None
    /\ epc = "idle"
    /\ SplitIdle
    /\ CodecIdle
    /\ ValidateIdle
    /\ SingleIdle
    /\ ContextIdle
    /\ BatchedIdle
    /\ RequestIdle
    /\ RouteIdle
    /\ DocxIdle
    /\ JustifyIdle
    /\ FootnoteIdle
    /\ PipelineIdle
    /\ ParagraphsIdle
    /\ ReasoningIdle

\* estimate_tokens(text)
EstimateText ==
    /\ epc = "idle"
    /\ est_tokens' = estimate_tokens(est_text)
    /\ epc' = "estimated"
    /\ UNCHANGED notEstimateVars
    /\ UNCHANGED <<est_text, est_suffix, est_appended>>

\* estimate_tokens(text + suffix)
EstimateAppended ==
    /\ epc = "estimated"
    /\ est_appended' = estimate_tokens(est_text \o est_suffix)
    /\ epc' = "appended"
    /\ UNCHANGED notEstimateVars
    /\ UNCHANGED <<est_text, est_suffix, est_tokens>>

NextEstimate ==
    \/ EstimateText
    \/ EstimateAppended

SpecEstimate == InitEstimate /\ [][NextEstimate]_vars

\* the number of occurrences of a character in a text
RECURSIVE CountChar(_, _)
CountChar(t, c) ==
    IF t = <<>> THEN 0
    ELSE (IF Head(t) = c THEN 1 ELSE 0) + CountChar(Tail(t), c)

\* C17: the estimate is a function of the text alone: 0 for the empty text,
\* floor(len/4) for a text with no tag and no anchor, and otherwise
\* floor(len/4) plus 2 for every tag occurrence plus a further 3 for every
\* anchor occurrence; it never decreases when text is appended.
C17_EstimateTokens ==
    /\ epc # "idle" =>
           /\ est_tokens = (Len(est_text) \div 4)
                           + 2 * CountTags(est_text)
                           + 3 * Len(FindAnchors(est_text))
           /\ est_text = <<>> => est_tokens = 0
           /\ CountChar(est_text, "<") = 0 =>
                  est_tokens = Len(est_text) \div 4
    /\ epc = "appended" => est_appended >= est_tokens

\* C17 witness: a text with a tag and an anchor was estimated with both
\* surcharges, and again after an append that completed a further anchor.
C17_Witness ==
    /\ epc = "appended"
    /\ est_text = <<"<", "A", "0", "0", "1", ">", "<", "b", ">", "<", "A", "0">>
    /\ est_suffix = <<"0", "1", ">">>
    /\ est_tokens = 3 + 2 * 2 + 3
    /\ est_appended = 3 + 2 * 3 + 3 * 2

(***************************************************************************)
(* LegalCitationChecker.check_citations_in_text: the text is sized by      *)
(* TokenEstimator.analyze_text_size and sent down one path.  The text and  *)
(* the prompt enter by their estimated tokens.                             *)
(***************************************************************************)
\* self.model_limits, and the limit of a model that is not listed
ModelLimits == {8000, 8192, 4096}

\* self.safety_margin = 0.8
SafetyMarginTenths == 8

MaxPromptTokens == 4
TokenBand == 10

\* get_available_tokens: int(self.max_tokens * self.safety_margin) - prompt
get_available_tokens(limit, prompt) ==
    ((limit * SafetyMarginTenths) \div 10) - prompt

\* analyze_text_size, the keys the checker reads
analyze_text_size(limit, text_toks, prompt_toks) ==
    LET total_tokens == text_toks + prompt_toks
        available_tokens == get_available_tokens(limit, prompt_toks)
    IN  [kind |-> "analysis",
         text_tokens |-> text_toks,
         prompt_tokens |-> prompt_toks,
         total_tokens |-> total_tokens,
         available_tokens |-> available_tokens,
         max_tokens |-> limit,
         fits_in_context |-> total_tokens <= available_tokens,
         needs_batching |-> total_tokens > available_tokens]

InitRoute ==
    /\ has_client \in BOOLEAN
    /\ model_max_tokens \in ModelLimits
    /\ prompt_tokens \in 0..MaxPromptTokens
    /\ \E d \in (0 - TokenBand)..TokenBand :
           text_tokens = ((model_max_tokens * SafetyMarginTenths) \div 10) + d
    /\ analysis = [kind |-> "none"]
    /\ route = "idle"
    /\ SplitIdle
    /\ CodecIdle
    /\ ValidateIdle
    /\ SingleIdle
    /\ ContextIdle
    /\ BatchedIdle
    /\ RequestIdle
    /\ EstimateIdle
    /\ DocxIdle
    /\ JustifyIdle
    /\ FootnoteIdle
    /\ PipelineIdle
    /\ ParagraphsIdle
    /\ ReasoningIdle

\* lines 139-141: no client, None is returned
CheckInTextNoClient ==
    /\ route = "idle"
    /\ ~has_client
    /\ route' = "none"
    /\ UNCHANGED notRouteVars
    /\ UNCHANGED <<has_client, model_max_tokens, text_tokens, prompt_tokens,
                   analysis>>

\* lines 144-150: the analysis needs batching
CheckInTextBatched ==
    /\ route = "idle"
    /\ has_client
    /\ analysis' = analyze_text_size(model_max_tokens, text_tokens,
                                     prompt_tokens)
    /\ analysis'.needs_batching
    /\ route' = "batched"
    /\ UNCHANGED notRouteVars
    /\ UNCHANGED <<has_client, model_max_tokens, text_tokens, prompt_tokens>>

\* lines 144-153: the analysis needs no batching
CheckInTextSingle ==
    /\ route = "idle"
    /\ has_client
    /\ analysis' = analyze_text_size(model_max_tokens, text_tokens,
                                     prompt_tokens)
    /\ ~analysis'.needs_batching
    /\ route' = "single"
    /\ UNCHANGED notRouteVars
    /\ UNCHANGED <<has_client, model_max_tokens, text_tokens, prompt_tokens>>

NextRoute ==
    \/ CheckInTextNoClient
    \/ CheckInTextBatched
    \/ CheckInTextSingle

SpecRoute == InitRoute /\ [][NextRoute]_vars

\* the budget the text has: floor(model_limit x 0.8) less the prompt, once
AvailableBudget ==
    ((model_max_tokens * 8) \div 10) - prompt_tokens

\* C18: with a client configured the call takes exactly one of the two
\* paths, the single-call path exactly when estimate_tokens(text) <=
\* floor(model_limit x 0.8) - estimate_tokens(prompt), and the batched path
\* otherwise: the prompt's tokens are subtracted once.
C18_SinglePathIffFits ==
    has_client /\ route # "idle" =>
        /\ route \in {"single", "batched"}
        /\ route = "single" <=> text_tokens <= AvailableBudget

\* every call takes one of the two paths
OneOfTwoPaths == route # "idle" => route \in {"single", "batched"}

\* what the code does: the prompt is counted on both sides, so the single
\* path is taken exactly when the text fits the budget less the prompt again
SinglePathIffFitsLessPrompt ==
    route \in {"single", "batched"} =>
        (route = "single" <=> text_tokens <= AvailableBudget - prompt_tokens)

(***************************************************************************)
(* The decoder's pairing of texts with the original paragraphs.            *)
(***************************************************************************)
\* the text that follows the k-th anchor of the file, up to the next anchor
TextAfterAnchor(k) == SplitOnAnchors(final_text, 1, 1)[k + 1]

\* C19: the file has N anchors for the N paragraphs of the original; once
\* decoded, the k-th paragraph of the new body is built from the text that
\* follows the k-th anchor, for every k, including the paragraphs whose text
\* is empty, and the new body has N paragraphs.
C19_PositionalAlignment ==
    cpc = "decoded" =>
        /\ CountCodecAnchorsFrom(final_text, 1) = Len(doc)
        /\ Len(new_body) = Len(doc)
        /\ \A k \in 1..Len(doc) :
               new_body[k] =
                   reconstruct_runs_from_text(Strip(TextAfterAnchor(k)))

\* the same for the documents in which every paragraph has text that is
\* not white space alone
AlignedWhenNoParagraphIsBlank ==
    (/\ cpc = "decoded"
     /\ \A k \in 1..Len(doc) : Strip(TextAfterAnchor(k)) # <<>>) =>
        /\ Len(new_body) = Len(doc)
        /\ \A k \in 1..Len(doc) :
               new_body[k] =
                   reconstruct_runs_from_text(Strip(TextAfterAnchor(k)))

(***************************************************************************)
(* DocxExtractor._convert_to_tagged_text and DocxReconstructor on one      *)
(* paragraph of one span.  A text is a sequence of characters; the tags    *)
(* the extractor writes around a bold span are the tokens "<bold>" and     *)
(* "</bold>".                                                              *)
(***************************************************************************)
MaxSpanLen == 4

SpanChars == {"&", "<", ">", "l", "t", ";", "x"}

SpanTexts == SeqsUpTo(SpanChars, MaxSpanLen)

Extractors == {"core", "legacy"}

\* one character of text.replace('&', '&amp;').replace('<', '&lt;')
\* .replace('>', '&gt;')
EscapedChar(c) ==
    CASE c = "&" -> <<"&", "a", "m", "p", ";">>
      [] c = "<" -> <<"&", "l", "t", ";">>
      [] c = ">" -> <<"&", "g", "t", ";">>
      [] OTHER -> <<c>>

\* docx_extractor.py lines 170-172 and docx_reconstructor.py line 224
RECURSIVE EscapeMarkup(_)
EscapeMarkup(t) ==
    IF t = <<>> THEN <<>> ELSE EscapedChar(Head(t)) \o EscapeMarkup(Tail(t))

\* the named character references html.unescape knows among the names that
\* the characters of the model can spell, and what each stands for ("<<" is
\* the much-less-than sign of 'll;')
EntityNames ==
    { <<"a", "m", "p", ";">>, <<"a", "m", "p">>,
      <<"l", "t", ";">>, <<"l", "t">>,
      <<"g", "t", ";">>, <<"g", "t">>,
      <<"l", "l", ";">> }

EntityChar(name) ==
    CASE name[1] = "a" -> "&"
      [] name[1] = "g" -> ">"
      [] name[2] = "t" -> "<"
      [] OTHER -> "<<"

\* the characters that end the name of a reference: [^\t\n\f <&#;]
NotNameChars == {" ", "n", "<", "&", "#", ";"}

\* the length of the run of name characters from offset i
RECURSIVE NameRun(_, _)
NameRun(t, i) ==
    IF i > Len(t) \/ t[i] \in NotNameChars THEN 0 ELSE 1 + NameRun(t, i + 1)

\* the longest known prefix of s of length x or less, x >= 2, or 0
RECURSIVE KnownPrefix(_, _)
KnownPrefix(s, x) ==
    IF x < 2 THEN 0
    ELSE IF SubSeq(s, 1, x) \in EntityNames THEN x
    ELSE KnownPrefix(s, x - 1)

\* html._replace_charref for a named reference s
ReplaceCharref(s) ==
    IF s \in EntityNames THEN <<EntityChar(s)>>
    ELSE LET x == KnownPrefix(s, Len(s) - 1)
         IN  IF x = 0 THEN <<"&">> \o s
             ELSE <<EntityChar(SubSeq(s, 1, x))>> \o Slice(s, x + 1, Len(s))

\* html.unescape(t) from offset i (the names here stay under the 32
\* characters of the pattern; no numeric reference can be spelled)
RECURSIVE UnescapeFrom(_, _)
UnescapeFrom(t, i) ==
    IF i > Len(t) THEN <<>>
    ELSE IF t[i] = "&" /\ NameRun(t, i + 1) > 0
         THEN LET r == NameRun(t, i + 1)
                  semi == IF i + r + 1 <= Len(t) /\ t[i + r + 1] = ";"
                          THEN 1 ELSE 0
              IN  ReplaceCharref(SubSeq(t, i + 1, i + r + semi))
                  \o UnescapeFrom(t, i + r + semi + 1)
         ELSE <<t[i]>> \o UnescapeFrom(t, i + 1)

HtmlUnescape(t) == UnescapeFrom(t, 1)

\* re.sub(r'<[^>]+>', '', t) from offset i
RECURSIVE StripTagsFrom(_, _)
StripTagsFrom(t, i) ==
    IF i > Len(t) THEN <<>>
    ELSE IF t[i] = "<" /\ i + 2 <= Len(t) /\ t[i + 1] # ">"
            /\ IndexFrom(t, ">", i + 2) # 0
         THEN StripTagsFrom(t, IndexFrom(t, ">", i + 2) + 1)
         ELSE <<t[i]>> \o StripTagsFrom(t, i + 1)

StripTags(t) == StripTagsFrom(t, 1)

\* _create_run_xml lines 221-225: the content written into w:t
RunContent(t) == EscapeMarkup(StripTags(HtmlUnescape(t)))

\* the text a reader of the XML gets from the content of a w:t: the three
\* references the reconstructor writes stand for their characters
RECURSIVE XmlTextFrom(_, _)
XmlTextFrom(t, i) ==
    IF i > Len(t) THEN <<>>
    ELSE IF t[i] = "&"
         THEN LET j == IndexFrom(t, ";", i + 1)
              IN  <<EntityChar(SubSeq(t, i + 1, j))>> \o XmlTextFrom(t, j + 1)
         ELSE <<t[i]>> \o XmlTextFrom(t, i + 1)

XmlText(t) == XmlTextFrom(t, 1)

\* the offset of the first token tok of t, or 0
FirstToken(t, tok) == IndexFrom(t, tok, 1)

\* _parse_formatting_tags for '<bold>(.*?)</bold>' and _parse_paragraph
\* line 58: the bold span, then what is left of the paragraph if it is not
\* white space
ParseParagraph(t) ==
    LET p == FirstToken(t, "<bold>")
        q == IF p = 0 THEN 0 ELSE IndexFrom(t, "</bold>", p + 1)
        bold_part == IF q = 0 THEN <<>>
                     ELSE <<[text |-> Slice(t, p + 1, q - 1),
                             is_bold |-> TRUE]>>
        rest == IF q = 0 THEN t
                ELSE Slice(t, 1, p - 1) \o Slice(t, q + 1, Len(t))
    IN  bold_part
        \o (IF Strip(rest) = <<>> THEN <<>>
            ELSE <<[text |-> Strip(rest), is_bold |-> FALSE]>>)

InitDocx ==
    /\ span_text \in SpanTexts
    /\ span_bold \in BOOLEAN
    /\ extractor \in Extractors
    /\ tagged_text = <<>>
    /\ parsed_texts = <<>>
    /\ runs = <<>>
    /\ dpc = "span"
    /\ SplitIdle
    /\ CodecIdle
    /\ ValidateIdle
    /\ SingleIdle
    /\ ContextIdle
    /\ BatchedIdle
    /\ RequestIdle
    /\ EstimateIdle
    /\ RouteIdle
    /\ JustifyIdle
    /\ FootnoteIdle
    /\ PipelineIdle
    /\ ParagraphsIdle
    /\ ReasoningIdle

\* core/docx_extractor.py lines 397-438: the text goes in as it is
ConvertToTaggedTextCore ==
    /\ dpc = "span"
    /\ extractor = "core"
    /\ tagged_text' = IF span_bold
                      THEN <<"<bold>">> \o span_text \o <<"</bold>">>
                      ELSE span_text
    /\ dpc' = "tagged"
    /\ UNCHANGED notDocxVars
    /\ UNCHANGED <<span_text, span_bold, extractor, parsed_texts, runs>>

\* docx_extractor.py lines 165-194: the text is escaped first
ConvertToTaggedText ==
    /\ dpc = "span"
    /\ extractor = "legacy"
    /\ tagged_text' = IF span_bold
                      THEN <<"<bold>">> \o EscapeMarkup(span_text)
                           \o <<"</bold>">>
                      ELSE EscapeMarkup(span_text)
    /\ dpc' = "tagged"
    /\ UNCHANGED notDocxVars
    /\ UNCHANGED <<span_text, span_bold, extractor, parsed_texts, runs>>

\* _parse_enhanced_text: a paragraph of white space is skipped
ParseEnhancedText ==
    /\ dpc = "tagged"
    /\ parsed_texts' = IF Strip(tagged_text) = <<>> THEN <<>>
                       ELSE ParseParagraph(tagged_text)
    /\ dpc' = "parsed"
    /\ UNCHANGED notDocxVars
    /\ UNCHANGED <<span_text, span_bold, extractor, tagged_text, runs>>

\* _create_paragraph_xml and _create_run_xml: one run per ParsedText
CreateRunXml ==
    /\ dpc = "parsed"
    /\ runs' = [k \in 1..Len(parsed_texts) |->
                   [content |-> RunContent(parsed_texts[k].text),
                    is_bold |-> parsed_texts[k].is_bold]]
    /\ dpc' = "run"
    /\ UNCHANGED notDocxVars
    /\ UNCHANGED <<span_text, span_bold, extractor, tagged_text,
                   parsed_texts>>

NextDocx ==
    \/ ConvertToTaggedTextCore
    \/ ConvertToTaggedText
    \/ ParseEnhancedText
    \/ CreateRunXml

SpecDocx == InitDocx /\ [][NextDocx]_vars

\* the span holds one of the metacharacters at least
HasMetacharacter ==
    \E k \in 1..Len(span_text) : span_text[k] \in {"&", "<", ">"}

\* the span comes back as one run with the original text
SpanComesBack == Len(runs) = 1 /\ XmlText(runs[1].content) = span_text

\* C20: a span whose literal text holds &, < or > (and no tag of the
\* vocabulary) is decoded to a run whose text is exactly the original text.
C20_MetacharactersRoundTrip ==
    dpc = "run" /\ HasMetacharacter => SpanComesBack

\* the same for the extractor that escapes (docx_extractor.py)
LegacyRoundTrip ==
    dpc = "run" /\ HasMetacharacter /\ extractor = "legacy" => SpanComesBack

\* what the code does with the extractor that escapes: the span comes back
\* when no piece of it reads as a tag
LegacyRoundTripWithoutTagLike ==
    (/\ dpc = "run"
     /\ HasMetacharacter
     /\ extractor = "legacy"
     /\ StripTags(span_text) = span_text) => SpanComesBack

\* and with the extractor that does not: the span comes back when besides
\* no piece of it reads as a character reference
CoreRoundTripWithoutTagLikeOrReference ==
    (/\ dpc = "run"
     /\ HasMetacharacter
     /\ extractor = "core"
     /\ HtmlUnescape(span_text) = span_text
     /\ StripTags(span_text) = span_text) => SpanComesBack

(***************************************************************************)
(* DocxReconstructor._parse_paragraph on a paragraph inside a justify      *)
(* wrapper.  The paragraph is a sequence of items: plain text, a bold      *)
(* span, tabbed content (with or without text), a footnote.                *)
(***************************************************************************)
MaxItems == 3

Justifications == {"center", "right", "justify"}

Items ==
    { [kind |-> "plain", text |-> <<"a">>],
      [kind |-> "plain", text |-> <<" ">>],
      [kind |-> "bold", text |-> <<"b">>],
      [kind |-> "tabbed", text |-> <<"x">>],
      [kind |-> "tabbed", text |-> <<>>],
      [kind |-> "footnote", text |-> <<"f">>] }

ParsedText(knd, txt, just) ==
    [kind |-> knd, text |-> txt, justification |-> just]

\* _parse_tabbed_content: a record for the tabs and one for the content that
\* is not white space, neither with a justification
RECURSIVE ParseTabbedContent(_)
ParseTabbedContent(items) ==
    IF items = <<>> THEN <<>>
    ELSE (IF Head(items).kind = "tabbed"
          THEN <<ParsedText("tab", <<>>, None)>>
               \o (IF Strip(Head(items).text) = <<>> THEN <<>>
                   ELSE <<ParsedText("plain", Strip(Head(items).text), None)>>)
          ELSE <<>>)
         \o ParseTabbedContent(Tail(items))

\* _parse_formatting_tags: a record for every span, with the justification
RECURSIVE ParseFormattingTags(_, _)
ParseFormattingTags(items, just) ==
    IF items = <<>> THEN <<>>
    ELSE (IF Head(items).kind = "bold"
          THEN <<ParsedText("bold", Head(items).text, just)>> ELSE <<>>)
         \o ParseFormattingTags(Tail(items), just)

\* _parse_footnotes: a record for every footnote, without a justification
RECURSIVE ParseFootnotes(_)
ParseFootnotes(items) ==
    IF items = <<>> THEN <<>>
    ELSE (IF Head(items).kind = "footnote"
          THEN <<ParsedText("footnote", Head(items).text, None)>> ELSE <<>>)
         \o ParseFootnotes(Tail(items))

\* the text the three passes leave behind
RECURSIVE RemainingText(_)
RemainingText(items) ==
    IF items = <<>> THEN <<>>
    ELSE (IF Head(items).kind = "plain" THEN Head(items).text ELSE <<>>)
         \o RemainingText(Tail(items))

\* _parse_paragraph lines 51-60, the wrapper having matched
ParseJustifiedParagraph(items, just) ==
    ParseTabbedContent(items)
    \o ParseFormattingTags(items, just)
    \o ParseFootnotes(items)
    \o (IF Strip(RemainingText(items)) = <<>> THEN <<>>
        ELSE <<ParsedText("plain", Strip(RemainingText(items)), just)>>)

\* _create_paragraph_xml lines 182-185: paragraph[0].justification, written
\* when it is set and is not 'left'
JustificationWritten(paragraph) ==
    IF paragraph[1].justification # None
       /\ paragraph[1].justification # "left"
    THEN paragraph[1].justification ELSE None

InitJustify ==
    /\ just_wrapper \in Justifications
    /\ just_items \in SeqsUpTo(Items, MaxItems)
    /\ just_parsed = <<>>
    /\ just_jc = None
    /\ jpc = "tagged"
    /\ SplitIdle
    /\ CodecIdle
    /\ ValidateIdle
    /\ SingleIdle
    /\ ContextIdle
    /\ BatchedIdle
    /\ RequestIdle
    /\ EstimateIdle
    /\ RouteIdle
    /\ DocxIdle
    /\ FootnoteIdle
    /\ PipelineIdle
    /\ ParagraphsIdle
    /\ ReasoningIdle

\* _parse_enhanced_text lines 41-46: the paragraph is parsed
ParseJustified ==
    /\ jpc = "tagged"
    /\ just_parsed' = ParseJustifiedParagraph(just_items, just_wrapper)
    /\ jpc' = "parsed"
    /\ UNCHANGED notJustifyVars
    /\ UNCHANGED <<just_wrapper, just_items, just_jc>>

\* _create_paragraph_xml: the paragraph that has records is written
CreateParagraphXml ==
    /\ jpc = "parsed"
    /\ just_parsed # <<>>
    /\ just_jc' = JustificationWritten(just_parsed)
    /\ jpc' = "xml"
    /\ UNCHANGED notJustifyVars
    /\ UNCHANGED <<just_wrapper, just_items, just_parsed>>

NextJustify ==
    \/ ParseJustified
    \/ CreateParagraphXml

SpecJustify == InitJustify /\ [][NextJustify]_vars

\* C21: the paragraph written for a paragraph in a <justify_X> wrapper has
\* justification X, whatever it holds and in whatever order.
C21_JustificationKept ==
    jpc = "xml" => just_jc = just_wrapper

\* what the code does: the justification is kept when the paragraph has no
\* tabbed content and has a bold span or no footnote
JustificationKeptWithoutTabs ==
    (/\ jpc = "xml"
     /\ \A k \in 1..Len(just_items) : just_items[k].kind # "tabbed"
     /\ \/ \E k \in 1..Len(just_items) : just_items[k].kind = "bold"
        \/ \A k \in 1..Len(just_items) : just_items[k].kind # "footnote")
        => just_jc = just_wrapper

(***************************************************************************)
(* DocxExtractor.extract_text_with_formatting on one extractor object: the *)
(* labels the footnote references get.  A run is text, a tab, a footnote   *)
(* reference, or a tab and a reference together.                           *)
(***************************************************************************)
MaxRuns == 3
MaxCalls == 2

\* ids of the source package
FootnoteIds == {"2", "7"}

RunsOfDocument ==
    { [kind |-> "text", id |-> None], [kind |-> "tab", id |-> None],
      [kind |-> "ref", id |-> "2"], [kind |-> "ref", id |-> "7"],
      [kind |-> "tab_ref", id |-> "2"] }

\* run.find('.//w:tab') is not None
HasTab(run) == run.kind \in {"tab", "tab_ref"}

\* lines 104-121: the index after the tabs that follow the tab at i
RECURSIVE AfterTabs(_, _)
AfterTabs(rs, j) ==
    IF j <= Len(rs) /\ HasTab(rs[j]) THEN AfterTabs(rs, j + 1) ELSE j

\* lines 136-141: the run has a reference and its id is in self.footnotes
Resolves(run, table) == run.kind = "ref" /\ run.id \in table

InitFootnote ==
    /\ fn_table = {}
    /\ fn_package \in SUBSET FootnoteIds
    /\ fn_runs \in SeqsUpTo(RunsOfDocument, MaxRuns)
    /\ fn_i = 1
    /\ footnote_counter = 1
    /\ fn_labels = <<>>
    /\ fn_calls = 0
    /\ fpc = "new"
    /\ SplitIdle
    /\ CodecIdle
    /\ ValidateIdle
    /\ SingleIdle
    /\ ContextIdle
    /\ BatchedIdle
    /\ RequestIdle
    /\ EstimateIdle
    /\ RouteIdle
    /\ DocxIdle
    /\ JustifyIdle
    /\ PipelineIdle
    /\ ParagraphsIdle
    /\ ReasoningIdle

\* extract_text_with_formatting lines 54-64: the footnotes are collected
\* and the loop over the runs starts with an empty list of paragraphs
ExtractCall ==
    /\ fpc \in {"new", "returned"}
    /\ fn_calls < MaxCalls
    /\ fn_table' = fn_table \cup fn_package
    /\ fn_labels' = <<>>
    /\ fn_i' = 1
    /\ fn_calls' = fn_calls + 1
    /\ fpc' = "runs"
    /\ UNCHANGED notFootnoteVars
    /\ UNCHANGED <<fn_package, fn_runs, footnote_counter>>

\* _extract_paragraphs lines 97-156: one iteration of the loop over the runs
ExtractRun ==
    /\ fpc = "runs"
    /\ fn_i <= Len(fn_runs)
    /\ LET run == fn_runs[fn_i]
       IN  IF HasTab(run)
           THEN /\ fn_i' = AfterTabs(fn_runs, fn_i + 1)
                /\ UNCHANGED <<fn_labels, footnote_counter>>
           ELSE IF Resolves(run, fn_table)
           THEN /\ fn_labels' = Append(fn_labels, footnote_counter)
                /\ footnote_counter' = footnote_counter + 1
                /\ fn_i' = fn_i + 1
           ELSE /\ fn_i' = fn_i + 1
                /\ UNCHANGED <<fn_labels, footnote_counter>>
    /\ UNCHANGED notFootnoteVars
    /\ UNCHANGED <<fn_table, fn_package, fn_runs, fn_calls, fpc>>

\* extract_text_with_formatting lines 67-69: the tagged text is returned
ExtractReturn ==
    /\ fpc = "runs"
    /\ fn_i > Len(fn_runs)
    /\ fpc' = "returned"
    /\ UNCHANGED notFootnoteVars
    /\ UNCHANGED <<fn_table, fn_package, fn_runs, fn_i, footnote_counter,
                   fn_labels, fn_calls>>

NextFootnote ==
    \/ ExtractCall
    \/ ExtractRun
    \/ ExtractReturn

SpecFootnote == InitFootnote /\ [][NextFootnote]_vars

\* the reference runs of the document whose id is in the footnote table
ResolvingReferences ==
    {k \in 1..Len(fn_runs) : Resolves(fn_runs[k], fn_table)}

\* C22: when a call returns, the references that resolve against the
\* footnote table have the labels 1, 2, ..., M in encounter order: the
\* numbering starts at 1 in every call and has no gaps or repeats.
C22_LabelsFromOne ==
    fpc = "returned" =>
        /\ Len(fn_labels) = Cardinality(ResolvingReferences)
        /\ \A k \in 1..Len(fn_labels) : fn_labels[k] = k

\* the labels of one call are consecutive
LabelsConsecutive ==
    \A k \in 1..(Len(fn_labels) - 1) : fn_labels[k + 1] = fn_labels[k] + 1

\* the first call on an object numbers from 1
FirstCallLabelsFromOne ==
    fn_calls = 1 => \A k \in 1..Len(fn_labels) : fn_labels[k] = k


(***************************************************************************)
(* Reconciliation and the offsets of the records.                          *)
(***************************************************************************)
\* the records of a list, as a set
RecordsIn(cs) == {cs[k] : k \in 1..Len(cs)}

\* C23: two records of the input with the same anchor and different
\* offsets are two citations of one paragraph, not competing analyses: when
\* the call returns, both are in the output.
C23_DistinctOffsetsBothKept ==
    vpc = "done" =>
        \A i, j \in 1..Len(citations) :
            (/\ citations[i].anchor = citations[j].anchor
             /\ citations[i].start_offset # citations[j].start_offset)
                => /\ citations[i] \in RecordsIn(validated_citations)
                   /\ citations[j] \in RecordsIn(validated_citations)

\* what the code does with them: the records of one anchor, whatever their
\* offsets, are reduced to a single record of the output
OneRecordWhateverTheOffsets ==
    vpc = "done" =>
        \A i, j \in 1..Len(citations) :
            (/\ citations[i].anchor = citations[j].anchor
             /\ citations[i].start_offset # citations[j].start_offset)
                => ~ (/\ citations[i] \in RecordsIn(validated_citations)
                      /\ citations[j] \in RecordsIn(validated_citations))


(***************************************************************************)
(* LLMDocumentProcessor.process_document on one processor object.  A step  *)
(* function is modelled by what it returns for each thing it can do: a     *)
(* path, None, or an exception ("raises") that process_document catches.   *)
(***************************************************************************)
MaxDocuments == 2

\* the order of the step functions in process_document
PipelineOrder ==
    <<"extract_docx_xml", "xml_to_anchored_txt", "edit_document",
      "anchored_txt_to_xml", "repackage_docx_xml">>

ExtractOutcomes == {"written", "no_document_xml", "raises"}
EncodeOutcomes == {"written", "xml_missing", "raises"}
EditOutcomes == {"text", "no_response", "no_choices"}
DecodeOutcomes == {"written", "txt_missing", "xml_missing", "raises"}
RepackageOutcomes == {"written", "docx_missing", "xml_missing", "raises"}

\* what a step function does when it does its work
DidItsWork == {"written", "text"}

\* extract_docx_xml: str(output_txt) after writing, None without a
\* word/document.xml
extract_docx_xml(did) ==
    CASE did = "written" -> "path"
      [] did = "raises" -> "raises"
      [] OTHER -> "None"

\* xml_to_anchored_txt: str(output_txt) after writing, None for a missing
\* file
xml_to_anchored_txt(did) ==
    CASE did = "written" -> "path"
      [] did = "raises" -> "raises"
      [] OTHER -> "None"

\* LLMClient.edit_document: the content, or an exception
edit_document(did) == IF did = "text" THEN "text" ELSE "raises"

\* anchored_txt_to_xml: a bare return for a missing file, and no return
\* statement after the file is written
anchored_txt_to_xml(did) == IF did = "raises" THEN "raises" ELSE "None"

\* repackage_docx_xml: a bare return for a missing file, and no return
\* statement after the package is written
repackage_docx_xml(did) == IF did = "raises" THEN "raises" ELSE "None"

\* MetadataManager.create_document_metadata
create_document_metadata == [pipeline_steps |-> <<>>, status |-> "started"]

\* MetadataManager.add_pipeline_step
add_pipeline_step(meta, step_name, status) ==
    [meta EXCEPT !.pipeline_steps =
                     Append(@, [name |-> step_name, status |-> status])]

\* MetadataManager.save_metadata: the dict as it is written to the file
save_metadata(meta) == [meta EXCEPT !.status = "completed"]

\* a step is recorded as failed, the metadata are saved, None is returned
ReturnNone(meta, step_name) ==
    LET failed == save_metadata(add_pipeline_step(meta, step_name, "failed"))
    IN  /\ metadata' = failed
        /\ metadata_dir' = Append(metadata_dir, failed)
        /\ returned' = Append(returned, "None")
        /\ lpc' = "done"

\* what follows the call of a step function: the except clause, the branch
\* of a falsy value, or the completed step and the next step
AfterStep(value, step_name, next) ==
    CASE value = "raises" -> ReturnNone(metadata, "document_processing")
      [] value = "None" -> ReturnNone(metadata, step_name)
      [] OTHER ->
            /\ metadata' = add_pipeline_step(metadata, step_name, "completed")
            /\ lpc' = next
            /\ UNCHANGED <<metadata_dir, returned>>

\* lines 264-290: repackaging, and the return of its path
RepackageDocx(meta, output_docx) ==
    CASE output_docx = "raises" -> ReturnNone(meta, "document_processing")
      [] output_docx = "None" -> ReturnNone(meta, "repackage_docx")
      [] OTHER ->
            LET done == save_metadata(
                            add_pipeline_step(meta, "repackage_docx",
                                              "completed"))
            IN  /\ metadata' = done
                /\ metadata_dir' = Append(metadata_dir, done)
                /\ returned' = Append(returned, "path")
                /\ lpc' = "done"

StepRun(name, did) == [name |-> name, did |-> did]

InitPipeline ==
    /\ proc_client \in BOOLEAN
    /\ docx_exists = FALSE
    /\ metadata = <<>>
    /\ metadata_dir = <<>>
    /\ steps_run = <<>>
    /\ returned = <<>>
    /\ lpc = "new"
    /\ SplitIdle
    /\ CodecIdle
    /\ ValidateIdle
    /\ SingleIdle
    /\ ContextIdle
    /\ BatchedIdle
    /\ RequestIdle
    /\ EstimateIdle
    /\ RouteIdle
    /\ DocxIdle
    /\ JustifyIdle
    /\ FootnoteIdle
    /\ ParagraphsIdle
    /\ ReasoningIdle

\* lines 167-192: the metadata are created; without a client or without
\* the document the call is over
ProcessDocument ==
    /\ lpc \in {"new", "done"}
    /\ Len(returned) < MaxDocuments
    /\ steps_run' = <<>>
    /\ \E exists \in BOOLEAN :
        /\ docx_exists' = exists
        /\ IF ~proc_client \/ ~exists
           THEN ReturnNone(create_document_metadata, "document_processing")
           ELSE /\ metadata' = create_document_metadata
                /\ lpc' = "extract"
                /\ UNCHANGED <<metadata_dir, returned>>
    /\ UNCHANGED proc_client
    /\ UNCHANGED notPipelineVars

\* lines 195-207: step 1
ExtractXml ==
    /\ lpc = "extract"
    /\ \E did \in ExtractOutcomes :
        /\ steps_run' = Append(steps_run, StepRun("extract_docx_xml", did))
        /\ AfterStep(extract_docx_xml(did), "extract_xml", "encode")
    /\ UNCHANGED <<proc_client, docx_exists>>
    /\ UNCHANGED notPipelineVars

\* lines 209-221: step 2
ConvertToAnchoredTxt ==
    /\ lpc = "encode"
    /\ \E did \in EncodeOutcomes :
        /\ steps_run' = Append(steps_run, StepRun("xml_to_anchored_txt", did))
        /\ AfterStep(xml_to_anchored_txt(did), "convert_to_anchored_txt",
                     "edit")
    /\ UNCHANGED <<proc_client, docx_exists>>
    /\ UNCHANGED notPipelineVars

\* lines 223-244: the text is read, edited by the model and saved
LlmEditing ==
    /\ lpc = "edit"
    /\ \E did \in EditOutcomes :
        /\ steps_run' = Append(steps_run, StepRun("edit_document", did))
        /\ AfterStep(edit_document(did), "llm_editing", "decode")
    /\ UNCHANGED <<proc_client, docx_exists>>
    /\ UNCHANGED notPipelineVars

\* lines 246-297: the edited text is converted back and, when the
\* conversion returned a path, the package is written
ConvertToXml ==
    /\ lpc = "decode"
    /\ \E did \in DecodeOutcomes, packed \in RepackageOutcomes :
        LET reconstructed_xml == anchored_txt_to_xml(did)
            decoded == Append(steps_run, StepRun("anchored_txt_to_xml", did))
        IN  IF reconstructed_xml \in {"raises", "None"}
            THEN /\ steps_run' = decoded
                 /\ AfterStep(reconstructed_xml, "convert_to_xml", "done")
            ELSE /\ steps_run' =
                        Append(decoded, StepRun("repackage_docx_xml", packed))
                 /\ RepackageDocx(
                        add_pipeline_step(metadata, "convert_to_xml",
                                          "completed"),
                        repackage_docx_xml(packed))
    /\ UNCHANGED <<proc_client, docx_exists>>
    /\ UNCHANGED notPipelineVars

NextPipeline ==
    \/ ProcessDocument
    \/ ExtractXml
    \/ ConvertToAnchoredTxt
    \/ LlmEditing
    \/ ConvertToXml

SpecPipeline == InitPipeline /\ [][NextPipeline]_vars

(***************************************************************************)
(* Claims about process_document.                                          *)
(***************************************************************************)
\* the step functions were called in the order of the pipeline
StepsInOrder ==
    \A k \in 1..Len(steps_run) : steps_run[k].name = PipelineOrder[k]

\* only the last step function called can have failed
NoStepAfterAFailure ==
    \A k \in 1..(Len(steps_run) - 1) : steps_run[k].did \in DidItsWork

\* the call had its client and its document and every step function it
\* reached did its work
NoStepFailed ==
    /\ proc_client
    /\ docx_exists
    /\ \A k \in 1..Len(steps_run) : steps_run[k].did \in DidItsWork

HasStep(meta, step_name, status) ==
    \E k \in 1..Len(meta.pipeline_steps) :
        meta.pipeline_steps[k] = [name |-> step_name, status |-> status]

\* C24: the steps run in the order extract, encode, edit, decode,
\* repackage; a call in which every step succeeds returns the path of the
\* edited DOCX and saves metadata with a completed repackage_docx step; a
\* call in which a step fails returns None and runs no later step.
C24_PipelineOrderAndResult ==
    /\ StepsInOrder
    /\ NoStepAfterAFailure
    /\ lpc = "done" =>
        IF NoStepFailed
        THEN /\ returned[Len(returned)] = "path"
             /\ HasStep(metadata_dir[Len(metadata_dir)], "repackage_docx",
                        "completed")
        ELSE returned[Len(returned)] = "None"

\* a failing step ends the call with None, and every call saves its
\* metadata once
FailureReturnsNone ==
    /\ lpc = "done" /\ ~NoStepFailed => returned[Len(returned)] = "None"
    /\ lpc = "done" => Len(metadata_dir) = Len(returned)

\* no call returns a path, and no call reaches the repackaging
NeverReturnsAPath ==
    /\ \A k \in 1..Len(returned) : returned[k] = "None"
    /\ Len(steps_run) <= 4


(***************************************************************************)
(* The status of the saved metadata.                                       *)
(***************************************************************************)
HasFailedStep(meta) ==
    \E k \in 1..Len(meta.pipeline_steps) :
        meta.pipeline_steps[k].status = "failed"

\* C30: a saved metadata file has the status "completed" only if none of
\* its recorded pipeline steps has the status "failed".
C30_CompletedOnlyWithoutFailure ==
    \A k \in 1..Len(metadata_dir) :
        metadata_dir[k].status = "completed" => ~HasFailedStep(metadata_dir[k])

\* what the code does: every saved file says "completed", the ones with a
\* failed step included
SavedStatusAlwaysCompleted ==
    \A k \in 1..Len(metadata_dir) : metadata_dir[k].status = "completed"


(***************************************************************************)
(* Bare arrays whose records hold a nested array.                          *)
(***************************************************************************)
\* the response is, unfenced, a valid JSON array of citation records one of
\* which holds a nested array
BareArrayWithNestedArray(c) ==
    /\ TokenAt(c, 1) = "["
    /\ \A k \in 1..Len(c) : c[k] # "fence"
    /\ JsonLoads(c).ok
    /\ JsonLoads(c).value.kind = "arr"
    /\ \A k \in 1..Len(JsonLoads(c).value.items) :
           JsonLoads(c).value.items[k].kind = "obj"
    /\ \E k \in 1..Len(JsonLoads(c).value.items) :
           "errors" \in DOMAIN JsonLoads(c).value.items[k]

\* C25: a bare valid JSON array of citation records in which a record holds
\* a nested array is parsed into exactly those records: the bracketed span
\* that is extracted is balanced, not cut at the first closing bracket.
C25_NestedArrayParsed ==
    (ppc = "parsed" /\ BareArrayWithNestedArray(content)) =>
        /\ BracketSearch(content).group = content
        /\ single_result = StructureCitationResults(JsonLoads(content).value)

\* what the code does with such a response: the span ends at the first
\* closing bracket, does not parse, and the call returns None
NestedArrayCutAtFirstBracket ==
    (ppc = "parsed" /\ BareArrayWithNestedArray(content)) =>
        /\ Len(BracketSearch(content).group) < Len(content)
        /\ single_result = NoneValue


(***************************************************************************)
(* LegalCitationChecker._split_into_paragraphs on the text the encoder     *)
(* writes: each paragraph its anchor and its text, joined by blank lines.  *)
(***************************************************************************)
MaxSplitParas == 3

\* texts of a paragraph, none with white space at its ends
ParagraphContents == {<<>>, <<"a">>, <<"b", " ", "c">>, <<"d", "n", "e">>}

\* xml_to_anchored_txt lines 30-41 on paragraphs with these texts
RECURSIVE AnchoredParagraphs(_)
AnchoredParagraphs(contents) ==
    IF contents = <<>> THEN <<>>
    ELSE Append(AnchoredParagraphs(SubSeq(contents, 1, Len(contents) - 1)),
                AnchorTokenOf(Len(contents)) \o contents[Len(contents)])

\* the offset of the first position at or after i that holds no digit
RECURSIVE DigitsEnd(_, _)
DigitsEnd(t, i) ==
    IF i <= Len(t) /\ t[i] \in Digits THEN DigitsEnd(t, i + 1) ELSE i

\* r'[[P-\d+]]' matches at offset i: the offset after the match, or 0
ParagraphAnchorEnd(t, i) ==
    IF /\ i + 3 <= Len(t)
       /\ t[i] = "[[" /\ t[i + 1] = "P" /\ t[i + 2] = "-"
       /\ DigitsEnd(t, i + 3) > i + 3
       /\ TokenAt(t, DigitsEnd(t, i + 3)) = "]]"
    THEN DigitsEnd(t, i + 3) + 1
    ELSE 0

\* re.split(r'([[P-\d+]])', t): the texts between the anchors and, the
\* pattern being a group, the anchors themselves between them
RECURSIVE SplitKeepingAnchors(_, _, _)
SplitKeepingAnchors(t, start, i) ==
    IF i > Len(t) THEN <<Slice(t, start, Len(t))>>
    ELSE LET e == ParagraphAnchorEnd(t, i)
         IN  IF e = 0 THEN SplitKeepingAnchors(t, start, i + 1)
             ELSE <<Slice(t, start, i - 1), Slice(t, i, e - 1)>>
                  \o SplitKeepingAnchors(t, e, e)

InitParagraphs ==
    /\ par_contents \in SeqsUpTo(ParagraphContents, MaxSplitParas)
    /\ par_text = JoinParagraphs(AnchoredParagraphs(par_contents))
    /\ par_parts = <<>>
    /\ par_i = 0
    /\ par_result = <<>>
    /\ qpc = "call"
    /\ SplitIdle
    /\ CodecIdle
    /\ ValidateIdle
    /\ SingleIdle
    /\ ContextIdle
    /\ BatchedIdle
    /\ RequestIdle
    /\ EstimateIdle
    /\ RouteIdle
    /\ DocxIdle
    /\ JustifyIdle
    /\ FootnoteIdle
    /\ PipelineIdle
    /\ ReasoningIdle

\* line 490: the text is split on the anchors
SplitOnAnchorTags ==
    /\ qpc = "call"
    /\ par_parts' = SplitKeepingAnchors(par_text, 1, 1)
    /\ par_i' = 0
    /\ par_result' = <<>>
    /\ qpc' = "loop"
    /\ UNCHANGED <<par_contents, par_text>>
    /\ UNCHANGED notParagraphsVars

\* lines 494-498: one iteration of the loop over the even indices; the
\* list of the model is 1-based, so paragraphs[i] is par_parts[par_i + 1]
CombinePair ==
    /\ qpc = "loop"
    /\ par_i < Len(par_parts)
    /\ par_result' =
           Append(par_result,
                  IF par_i + 1 < Len(par_parts)
                  THEN par_parts[par_i + 1] \o par_parts[par_i + 2]
                  ELSE par_parts[par_i + 1])
    /\ par_i' = par_i + 2
    /\ UNCHANGED <<par_contents, par_text, par_parts, qpc>>
    /\ UNCHANGED notParagraphsVars

\* line 500: the stripped, non-empty elements are returned
SplitIntoParagraphsReturn ==
    /\ qpc = "loop"
    /\ par_i >= Len(par_parts)
    /\ par_result' = StripNonEmpty(par_result)
    /\ qpc' = "returned"
    /\ UNCHANGED <<par_contents, par_text, par_parts, par_i>>
    /\ UNCHANGED notParagraphsVars

NextParagraphs ==
    \/ SplitOnAnchorTags
    \/ CombinePair
    \/ SplitIntoParagraphsReturn

SpecParagraphs == InitParagraphs /\ [][NextParagraphs]_vars

(***************************************************************************)
(* Claims about _split_into_paragraphs.                                    *)
(***************************************************************************)
\* C26: for a text of N anchors, each the prefix of its paragraph, the
\* method returns N elements, the k-th being the k-th anchor followed by its
\* own text, so that index k - 1 holds the paragraph of anchor P-k.
C26_OneElementPerAnchor ==
    qpc = "returned" =>
        /\ Len(par_result) = Len(par_contents)
        /\ \A k \in 1..Len(par_contents) :
               par_result[k] = AnchorTokenOf(k) \o par_contents[k]

\* what the code returns when no paragraph is empty: one element more than
\* there are anchors, the first the bare first anchor, the k-th of the
\* others the text of paragraph k - 1 followed by the anchor of paragraph k,
\* the last the text of the last paragraph
AnchorsPairedWithPrecedingText ==
    (/\ qpc = "returned"
     /\ par_contents # <<>>
     /\ \A k \in 1..Len(par_contents) : par_contents[k] # <<>>) =>
        /\ Len(par_result) = Len(par_contents) + 1
        /\ par_result[1] = AnchorTokenOf(1)
        /\ \A k \in 2..Len(par_contents) :
               par_result[k] = par_contents[k - 1] \o ParagraphSep
                                   \o AnchorTokenOf(k)
        /\ par_result[Len(par_result)] = par_contents[Len(par_contents)]


(***************************************************************************)
(* The text of the batches against the text that was split.                *)
(***************************************************************************)
\* the text fields of the batches, one after the other
RECURSIVE BatchTextsJoined(_)
BatchTextsJoined(bs) ==
    IF bs = <<>> THEN <<>>
    ELSE BatchTextsJoined(SubSeq(bs, 1, Len(bs) - 1)) \o bs[Len(bs)].text

\* the text that follows the last anchor
TextAfterLastAnchor == FollowingText(Len(anchors))

\* C27: for a text with at least one recognised anchor, the text fields of
\* the returned batches, concatenated in order, are the input text; the
\* text after the last anchor is in the last batch.
C27_NoTextLost ==
    (spc = "done" /\ anchors # <<>>) => BatchTextsJoined(batches) = text

\* what the code returns: the input up to and including the last anchor,
\* and nothing of what follows it
TextKeptUpToLastAnchor ==
    (spc = "done" /\ anchors # <<>>) =>
        /\ BatchTextsJoined(batches)
               = SubSeq(text, 1, anchors[Len(anchors)] + AnchorLen - 1)
        /\ BatchTextsJoined(batches) \o TextAfterLastAnchor = text


(***************************************************************************)
(* ReasoningCitationValidator: validate_citations_with_reasoning and       *)
(* batch_validate_with_reasoning.  A citation is a dict, here a record     *)
(* whose domain is the keys it has.                                        *)
(***************************************************************************)
MaxReasonCitations == 3
MaxReasonBatch == 2

\* d.get(key, default)
DictGet(d, key, default) == IF key \in DOMAIN d THEN d[key] ELSE default

\* origs that one of the complex_patterns of lines 120-126 matches
ComplexOrigs == {"42 U.S.C. 1983"}

\* first-pass citations: one that is clear, one uncertain, one whose orig
\* is a federal statute, one that is an error without errors and has no
\* anchor key
FirstPassCitations ==
    { [anchor |-> "P-00001", type |-> "case", status |-> "Correct",
       orig |-> "Roe v. Wade", suggested |-> "Roe v. Wade",
       errors |-> <<>>, start_offset |-> 3],
      [anchor |-> "P-00001", type |-> "case", status |-> "Uncertain",
       orig |-> "Roe v. Wade", suggested |-> "Roe v. Wade",
       errors |-> <<>>, start_offset |-> 9],
      [anchor |-> "P-00002", type |-> "statute", status |-> "Correct",
       orig |-> "42 U.S.C. 1983", suggested |-> "42 U.S.C. 1983",
       errors |-> <<>>, start_offset |-> 0],
      [type |-> "case", status |-> "Error", orig |-> "Doe v. Bolton",
       suggested |-> "Doe v. Bolton, 410 U.S. 179", errors |-> <<>>] }

\* _needs_reasoning_validation, lines 98-141 (no orig of the model has
\* more than eight words)
NeedsReasoningValidation(citation) ==
    LET status == DictGet(citation, "status", "")
        errors == DictGet(citation, "errors", <<>>)
        orig == DictGet(citation, "orig", "")
        suggested == DictGet(citation, "suggested", "")
    IN  \/ status = "Uncertain"
        \/ status = "Error" /\ errors = <<>>
        \/ status = "Error" /\ orig = suggested
        \/ orig \in ComplexOrigs

\* what the reasoning call can come to: it raises, the response is
\* incomplete, has no output text, holds no braces, holds braces that are
\* not JSON, or holds a JSON object
ReasoningFailures == {"raises", "incomplete", "no_output", "no_json", "bad_json"}

\* the objects the model may answer: one with another anchor and another
\* orig and without offsets, one without an anchor
ReasoningAnswers ==
    { [anchor |-> "P-00009", type |-> "case", status |-> "Correct",
       orig |-> "Roe v. Wade, 410 U.S. 113", suggested |-> "Roe v. Wade"],
      [type |-> "case", status |-> "Error", orig |-> "Roe",
       suggested |-> "Roe v. Wade", errors |-> <<"short form">>] }

ReasoningOutcomes ==
    {[kind |-> f, value |-> <<>>] : f \in ReasoningFailures}
    \cup {[kind |-> "object", value |-> v] : v \in ReasoningAnswers}

RequiredFields == {"anchor", "type", "status", "orig", "suggested"}

\* a parser that keeps the anchor and the orig of the answer
ParseReasoningResponseAsAnswered(outcome, original_citation) ==
    IF outcome.kind # "object" THEN NoneValue
    ELSE IF ~(RequiredFields \subseteq DOMAIN outcome.value) THEN NoneValue
    ELSE outcome.value

\* _parse_reasoning_response, lines 312-367: None without a JSON object or
\* without a required field; else the object with the anchor and the orig
\* of the original citation and the defaults of lines 351-356
ParseReasoningResponse(outcome, original_citation) ==
    IF outcome.kind # "object" THEN NoneValue
    ELSE IF ~(RequiredFields \subseteq DOMAIN outcome.value) THEN NoneValue
    ELSE [f \in DOMAIN outcome.value
                    \cup {"start_offset", "end_offset", "errors"} |->
            CASE f = "anchor" -> DictGet(original_citation, "anchor", "")
              [] f = "orig" -> DictGet(original_citation, "orig", "")
              [] f \in DOMAIN outcome.value -> outcome.value[f]
              [] f = "errors" -> <<>>
              [] OTHER -> DictGet(original_citation, f, 0)]

\* _validate_single_citation_with_reasoning, lines 143-200: the citation
\* itself on every failure, the parsed object otherwise
ValidateSingleCitationWithReasoning(citation, outcome) ==
    IF outcome.kind \in {"raises", "incomplete", "no_output"} THEN citation
    ELSE LET validated_citation == ParseReasoningResponse(outcome, citation)
         IN  IF validated_citation # NoneValue THEN validated_citation
             ELSE citation

\* lines 78-92: what one iteration appends
ValidatedOrOriginal(citation, outcome) ==
    IF NeedsReasoningValidation(citation)
    THEN ValidateSingleCitationWithReasoning(citation, outcome)
    ELSE citation

InitReasoning ==
    /\ reason_client \in BOOLEAN
    /\ reason_entry \in {"validate", "batch"}
    /\ reason_citations \in SeqsUpTo(FirstPassCitations, MaxReasonCitations)
    /\ reason_batch_size \in 1..MaxReasonBatch
    /\ reason_i = 0
    /\ reason_batch = <<>>
    /\ reason_k = 1
    /\ batch_validated = <<>>
    /\ reason_output = <<>>
    /\ wpc = "call"
    /\ SplitIdle
    /\ CodecIdle
    /\ ValidateIdle
    /\ SingleIdle
    /\ ContextIdle
    /\ BatchedIdle
    /\ RequestIdle
    /\ EstimateIdle
    /\ RouteIdle
    /\ DocxIdle
    /\ JustifyIdle
    /\ FootnoteIdle
    /\ PipelineIdle
    /\ ParagraphsIdle

\* validate_citations_with_reasoning lines 64-73: the early returns, or
\* the start of the loop
ValidateCitationsWithReasoning ==
    /\ wpc = "call"
    /\ reason_entry = "validate"
    /\ reason_batch' = reason_citations
    /\ reason_k' = 1
    /\ batch_validated' = <<>>
    /\ IF ~reason_client
       THEN reason_output' = reason_citations /\ wpc' = "done"
       ELSE IF reason_citations = <<>>
       THEN reason_output' = <<>> /\ wpc' = "done"
       ELSE reason_output' = reason_output /\ wpc' = "loop"
    /\ UNCHANGED <<reason_client, reason_entry, reason_citations,
                   reason_batch_size, reason_i>>
    /\ UNCHANGED notReasoningVars

\* batch_validate_with_reasoning lines 380-385: the early return, or the
\* start of the loop over the batches
BatchValidateWithReasoning ==
    /\ wpc = "call"
    /\ reason_entry = "batch"
    /\ reason_i' = 0
    /\ reason_output' = <<>>
    /\ wpc' = IF reason_citations = <<>> THEN "done" ELSE "batch"
    /\ UNCHANGED <<reason_client, reason_entry, reason_citations,
                   reason_batch_size, reason_batch, reason_k, batch_validated>>
    /\ UNCHANGED notReasoningVars

\* lines 387-396 (and 64-73 of the method called): the next batch is cut
\* out and handed to validate_citations_with_reasoning, which returns it at
\* once without a client
BatchValidateNext ==
    /\ wpc = "batch"
    /\ reason_i < Len(reason_citations)
    /\ LET batch == Slice(reason_citations, reason_i + 1,
                          Min(Len(reason_citations),
                              reason_i + reason_batch_size))
       IN  /\ reason_batch' = batch
           /\ reason_k' = 1
           /\ batch_validated' = <<>>
           /\ IF ~reason_client
              THEN /\ reason_output' = reason_output \o batch
                   /\ reason_i' = reason_i + reason_batch_size
                   /\ wpc' = "batch"
              ELSE /\ reason_output' = reason_output
                   /\ reason_i' = reason_i
                   /\ wpc' = "loop"
    /\ UNCHANGED <<reason_client, reason_entry, reason_citations,
                   reason_batch_size>>
    /\ UNCHANGED notReasoningVars

\* lines 77-92: one citation of the loop
ValidateOneCitation ==
    /\ wpc = "loop"
    /\ reason_k <= Len(reason_batch)
    /\ \E outcome \in ReasoningOutcomes :
        batch_validated' =
            Append(batch_validated,
                   ValidatedOrOriginal(reason_batch[reason_k], outcome))
    /\ reason_k' = reason_k + 1
    /\ UNCHANGED <<reason_client, reason_entry, reason_citations,
                   reason_batch_size, reason_i, reason_batch, reason_output,
                   wpc>>
    /\ UNCHANGED notReasoningVars

\* line 95: validate_citations_with_reasoning returns its list, to the
\* caller or to line 398 of batch_validate_with_reasoning
ValidateCitationsReturn ==
    /\ wpc = "loop"
    /\ reason_k > Len(reason_batch)
    /\ IF reason_entry = "validate"
       THEN /\ reason_output' = batch_validated
            /\ reason_i' = reason_i
            /\ wpc' = "done"
       ELSE /\ reason_output' = reason_output \o batch_validated
            /\ reason_i' = reason_i + reason_batch_size
            /\ wpc' = "batch"
    /\ UNCHANGED <<reason_client, reason_entry, reason_citations,
                   reason_batch_size, reason_batch, reason_k, batch_validated>>
    /\ UNCHANGED notReasoningVars

\* line 405: batch_validate_with_reasoning returns
BatchValidateReturn ==
    /\ wpc = "batch"
    /\ reason_i >= Len(reason_citations)
    /\ wpc' = "done"
    /\ UNCHANGED <<reason_client, reason_entry, reason_citations,
                   reason_batch_size, reason_i, reason_batch, reason_k,
                   batch_validated, reason_output>>
    /\ UNCHANGED notReasoningVars

NextReasoning ==
    \/ ValidateCitationsWithReasoning
    \/ BatchValidateWithReasoning
    \/ BatchValidateNext
    \/ ValidateOneCitation
    \/ ValidateCitationsReturn
    \/ BatchValidateReturn

SpecReasoning == InitReasoning /\ [][NextReasoning]_vars

(***************************************************************************)
(* Claims about the reasoning validator.                                   *)
(***************************************************************************)
\* C28: whatever the reasoning calls come to, the list returned by
\* validate_citations_with_reasoning and by batch_validate_with_reasoning
\* has the length and the order of the input, and its k-th record has the
\* anchor and the orig of the k-th input record.
C28_CitationListPreserved ==
    wpc = "done" =>
        /\ Len(reason_output) = Len(reason_citations)
        /\ \A k \in 1..Len(reason_citations) :
            /\ DictGet(reason_output[k], "anchor", "")
                   = DictGet(reason_citations[k], "anchor", "")
            /\ DictGet(reason_output[k], "orig", "")
                   = DictGet(reason_citations[k], "orig", "")

\* C28 witness: a batched run over three citations has returned, the
\* reasoning model answered for the second one and its answer, with another
\* anchor and another orig, was taken over.
C28_Witness ==
    /\ wpc = "done"
    /\ reason_entry = "batch"
    /\ Len(reason_citations) = 3
    /\ reason_batch_size = 2
    /\ reason_output[2] # reason_citations[2]
    /\ reason_output[1] = reason_citations[1]


(***************************************************************************)
(* The counts of a citation report.                                        *)
(***************************************************************************)
\* C29: in a citation report total_citations_found is the number of its
\* records, citations_with_errors the number of records with status Error
\* and citations_correct the number of records with status Correct; a
\* record that is Uncertain or NotACitation is counted in neither.
C29_CountsByStatus ==
    (bpc = "done" /\ batched_result.kind = "combined") =>
        /\ batched_result.total_citations_found
               = Len(batched_result.citations)
        /\ batched_result.citations_with_errors
               = CountStatus(batched_result.citations, "Error")
        /\ batched_result.citations_correct
               = CountStatus(batched_result.citations, "Correct")

\* what the code reports: the first two counts are right, and
\* citations_correct is every record that is not an Error
CorrectIsEverythingButErrors ==
    (bpc = "done" /\ batched_result.kind = "combined") =>
        /\ batched_result.total_citations_found
               = Len(batched_result.citations)
        /\ batched_result.citations_with_errors
               = CountStatus(batched_result.citations, "Error")
        /\ batched_result.citations_correct
               = Len(batched_result.citations)
                     - CountStatus(batched_result.citations, "Error")

====
